---------------------------- MODULE Spec2Model ----------------------------
(***************************************************************************)
(* Model of the tablero inventory client (RemsPrueApp2): the record        *)
(* validator (TableroElectricoModel), the remote data gateway              *)
(* (TableroService), the React Query hooks (useTableros, useCreateTablero, *)
(* useUpdateTablero, useDeleteTablero), the create / edit forms and the    *)
(* list screen's filter / pagination composer (TablerosListView).          *)
(*                                                                         *)
(* JavaScript values.  A number-valued field is a tagged value so that     *)
(* undefined and NaN are values of the model: Num(n), NaN, Undef.  A text  *)
(* is a sequence of one-character strings, so that trim, toLowerCase and   *)
(* includes are computed and not assumed.                                  *)
(***************************************************************************)
EXTENDS Integers, Sequences, FiniteSets, TLC

VARIABLES
    candidate,      \* validator: the record handed to new TableroElectricoModel(data)
    validation,     \* validator: the value returned by validate(), or NoValidation
    gwCall,         \* gateway: the TableroService operation being awaited, or NoCall
    gwResponse,     \* gateway: what fetch() produced for gwCall, or NoResponse
    gwResult,       \* gateway: the {success, data, error} the operation returned
    gwRequests,     \* gateway: number of HTTP requests issued by gwCall
    gwArg,          \* gateway: the argument gwCall was invoked with
    gwPc,           \* gateway: where gwCall stands: "idle", "build", "await",
                    \*          "returned", or "threw" when an exception left it
    data,           \* list: useTableros().data, the fetched collection (<<>> while undefined)
    isLoading,      \* list: useTableros().isLoading
    searchTerm,     \* list: useState('') search term
    selectedYear,   \* list: useState(null) year filter, <<>> for null
    page,           \* list: useState(1) page counter (of either revision of the list)
    filteredTableros,   \* list: the useMemo value of the last render
    displayedTableros,  \* list: the useMemo value of the last render; useState([]) in the timer revision
    availableYears,     \* list: the useMemo value of the last render
    effectPending,  \* list: the page-reset effect's dependencies changed in the last render
    nav,            \* app: the tab shown
    listMounted,    \* app: TablerosListView is mounted and observes the query
    editing,        \* app: id of the tablero of the mounted EditTableroView, or NoId
    confirmDelete,  \* app: id of the tablero of the open delete confirmation, or NoId
    alerts,         \* app: the messages of the alerts on screen
    mutation,       \* app: the state of each screen's useMutation observer
    query,          \* app: the ['tableros'] query of the query cache
    inFlight,       \* app: the HTTP requests awaiting their response
    requestsIssued, \* app: number of HTTP requests issued so far
    isDarkMode,     \* theme: useState(false) of ThemeProvider
    themeLoad,      \* theme: loadThemePreference: "pending" (isLoading), "loaded", "failed"
    storage,        \* theme: the items of AsyncStorage
    savedTheme,     \* theme: what the getItem of loadThemePreference reads
    pendingWrites,  \* theme: the setItem calls the storage has not performed yet
    newTheme,       \* theme: newTheme of the latest toggleTheme call
    lastWrite,      \* theme: the setItem of the latest toggleTheme: "none", "pending", "done", "failed"
    toggles,        \* theme: number of toggleTheme calls since the provider mounted
    storageFailed,  \* theme: a getItem or setItem has rejected, or a setItem was lost
    beforeToggle,   \* theme: isDarkMode, the persisted theme and themeLoad as they were when
                    \*        toggleTheme was first called since the provider mounted
    ctlId,          \* controller: the tableroId TableroController.deleteTablero was called with
    ctlPc,          \* controller: where the call stands: "idle", "calling", "returned", "threw"
    ctlResult,      \* controller: the value the call returned, or NoResult
    queuedUpdates,  \* list: setPage(prevPage => prevPage + 1) updates queued since the last render
    loadedTableros, \* timer list: tableros, the useState([]) collection of the revision with
                    \*             the load-more timer
    loading,        \* timer list: useState(true)
    refreshing,     \* timer list: useState(false)
    loadingMore,    \* timer list: useState(false)
    timers,         \* timer list: the pending setTimeout callbacks, each with the page,
                    \*             displayedTableros and tableros of the render that created it
    loads           \* timer list: number of loadTableros calls awaiting getTableros

vars == <<candidate, validation, gwCall, gwResponse, gwResult, gwRequests, gwArg, gwPc,
          data, isLoading, searchTerm, selectedYear, page, filteredTableros,
          displayedTableros, availableYears, effectPending,
          nav, listMounted, editing, confirmDelete, alerts, mutation, query,
          inFlight, requestsIssued,
          isDarkMode, themeLoad, storage, savedTheme, pendingWrites, newTheme,
          lastWrite, toggles, storageFailed, beforeToggle, ctlId, ctlPc, ctlResult, queuedUpdates,
          loadedTableros, loading, refreshing, loadingMore, timers, loads>>

pagerVars == <<queuedUpdates>>

timerVars == <<loadedTableros, loading, refreshing, loadingMore, timers, loads>>

ctlVars == <<ctlId, ctlPc, ctlResult>>

themeVars == <<isDarkMode, themeLoad, storage, savedTheme, pendingWrites, newTheme,
               lastWrite, toggles, storageFailed, beforeToggle>>

appVars == <<nav, listMounted, editing, confirmDelete, alerts, mutation, query,
             inFlight, requestsIssued>>

nonAppVars == <<candidate, validation, gwCall, gwResponse, gwResult, gwRequests, gwArg, gwPc,
                data, isLoading, searchTerm, selectedYear, page,
                filteredTableros, displayedTableros, availableYears,
                effectPending, themeVars, ctlVars, pagerVars, timerVars>>

nonThemeVars == <<candidate, validation, gwCall, gwResponse, gwResult, gwRequests,
                  gwArg, gwPc, data, isLoading, searchTerm, selectedYear, page,
                  filteredTableros, displayedTableros, availableYears,
                  effectPending, appVars, ctlVars, pagerVars, timerVars>>

nonValidatorVars == <<gwCall, gwResponse, gwResult, gwRequests, gwArg, gwPc,
                      data, isLoading, searchTerm, selectedYear, page,
                      filteredTableros, displayedTableros, availableYears,
                      effectPending, appVars, themeVars, ctlVars, pagerVars, timerVars>>
nonGatewayVars == <<candidate, validation,
                    data, isLoading, searchTerm, selectedYear, page,
                    filteredTableros, displayedTableros, availableYears,
                    effectPending, appVars, themeVars, ctlVars, pagerVars, timerVars>>
nonListVars == <<candidate, validation, gwCall, gwResponse, gwResult, gwRequests,
                 gwArg, gwPc, appVars, themeVars, ctlVars, pagerVars, timerVars>>

listVars == <<data, isLoading, searchTerm, selectedYear, page, filteredTableros,
              displayedTableros, availableYears, effectPending>>


---------------------------------------------------------------------------
(* JavaScript numbers, undefined and NaN *)

Num(n) == [t |-> "num", v |-> n]
NaN == [t |-> "NaN", v |-> 0]
Undef == [t |-> "undefined", v |-> 0]

\* ToBoolean of a number-valued field: 0, NaN and undefined are falsy
Truthy(x) == x.t = "num" /\ x.v # 0

\* x || d
OrElse(x, d) == IF Truthy(x) THEN x ELSE d

\* a < b and a <= b on numbers: false as soon as one side is NaN/undefined
JsLt(a, b) == a.t = "num" /\ b.t = "num" /\ a.v < b.v
JsLe(a, b) == a.t = "num" /\ b.t = "num" /\ a.v <= b.v

---------------------------------------------------------------------------
(* JavaScript strings as sequences of characters *)

IsSpace(c) == c = " "

RECURSIVE TrimStart(_)
TrimStart(s) ==
    IF s # <<>> /\ IsSpace(Head(s)) THEN TrimStart(Tail(s)) ELSE s

RECURSIVE TrimEnd(_)
TrimEnd(s) ==
    IF s # <<>> /\ IsSpace(s[Len(s)]) THEN TrimEnd(SubSeq(s, 1, Len(s) - 1)) ELSE s

\* String.prototype.trim
Trim(s) == TrimEnd(TrimStart(s))

LowerChar(c) ==
    CASE c = "A" -> "a"
      [] c = "B" -> "b"
      [] c = "E" -> "e"
      [] c = "F" -> "f"
      [] c = "M" -> "m"
      [] c = "N" -> "n"
      [] c = "O" -> "o"
      [] c = "P" -> "p"
      [] c = "R" -> "r"
      [] c = "S" -> "s"
      [] c = "T" -> "t"
      [] OTHER -> c

\* String.prototype.toLowerCase
ToLowerCase(s) == [i \in 1..Len(s) |-> LowerChar(s[i])]

\* String.prototype.includes
Includes(hay, needle) ==
    \E i \in 0..(Len(hay) - Len(needle)) :
        SubSeq(hay, i + 1, i + Len(needle)) = needle

---------------------------------------------------------------------------
(* TableroElectricoModel *)

\* new Date().getFullYear()
CurrentYear == 2026

NoId == 0

\* constructor(data = {})
Operativo == <<"O", "p", "e", "r", "a", "t", "i", "v", "o">>
Mantenimiento == <<"M", "a", "n", "t", "e", "n", "i", "m", "i", "e", "n", "t", "o">>
FueraDeServicio == <<"F", "u", "e", "r", "a", " ", "d", "e", " ", "s", "e", "r", "v", "i", "c", "i", "o">>

TableroElectricoModel(d) ==
    [id                 |-> d.id,
     nombre             |-> d.nombre,
     ubicacion          |-> d.ubicacion,
     marca              |-> d.marca,
     capacidad_amperios |-> OrElse(d.capacidad_amperios, Num(0)),
     ano_fabricacion    |-> OrElse(d.ano_fabricacion, Num(CurrentYear)),
     ano_instalacion    |-> OrElse(d.ano_instalacion, Num(CurrentYear)),
     estado             |-> IF d.estado = <<>> THEN Operativo ELSE d.estado]

\* toJSON(): the seven fields, and the id only when the model has one
toJSON(m) ==
    [id                 |-> IF m.id # NoId THEN m.id ELSE NoId,
     nombre             |-> m.nombre,
     ubicacion          |-> m.ubicacion,
     marca              |-> m.marca,
     capacidad_amperios |-> m.capacidad_amperios,
     ano_fabricacion    |-> m.ano_fabricacion,
     ano_instalacion    |-> m.ano_instalacion,
     estado             |-> m.estado]

MsgNombre == "El nombre es requerido"
MsgUbicacion == "La ubicacion es requerida"
MsgMarca == "La marca es requerida"
MsgCapacidad == "La capacidad en amperios debe ser mayor a 0"
MsgFabricacion == "El ano de fabricacion no es valido"
MsgInstalacion == "El ano de instalacion no es valido"
MsgOrden == "El ano de instalacion no puede ser anterior al ano de fabricacion"

\* errors.push(msg) when the rule's condition holds
PushIf(errors, cond, msg) == IF cond THEN Append(errors, msg) ELSE errors

\* the seven conditions of validate(), in the order of the code
validateErrors(m) ==
    LET e1 == PushIf(<<>>, m.nombre = <<>> \/ Trim(m.nombre) = <<>>, MsgNombre)
        e2 == PushIf(e1, m.ubicacion = <<>> \/ Trim(m.ubicacion) = <<>>, MsgUbicacion)
        e3 == PushIf(e2, m.marca = <<>> \/ Trim(m.marca) = <<>>, MsgMarca)
        e4 == PushIf(e3, ~Truthy(m.capacidad_amperios)
                          \/ JsLe(m.capacidad_amperios, Num(0)), MsgCapacidad)
        e5 == PushIf(e4, ~Truthy(m.ano_fabricacion)
                          \/ JsLt(m.ano_fabricacion, Num(1900)), MsgFabricacion)
        e6 == PushIf(e5, ~Truthy(m.ano_instalacion)
                          \/ JsLt(m.ano_instalacion, Num(1900)), MsgInstalacion)
        e7 == PushIf(e6, JsLt(m.ano_instalacion, m.ano_fabricacion), MsgOrden)
    IN  e7

\* validate()
validate(m) ==
    LET errors == validateErrors(m)
    IN  [isValid |-> (Len(errors) = 0), errors |-> errors]

\* TableroController.validateTableroData(tableroData)
validateTableroData(tableroData) == validate(TableroElectricoModel(tableroData))

---------------------------------------------------------------------------
(* TablerosListView: the list state composer *)

ITEMS_PER_PAGE == 10

DigitChar(d) ==
    CASE d = 0 -> "0" [] d = 1 -> "1" [] d = 2 -> "2" [] d = 3 -> "3"
      [] d = 4 -> "4" [] d = 5 -> "5" [] d = 6 -> "6" [] d = 7 -> "7"
      [] d = 8 -> "8" [] d = 9 -> "9"

\* Number.prototype.toString of a natural number
RECURSIVE IntToString(_)
IntToString(n) ==
    IF n < 10 THEN <<DigitChar(n)>>
    ELSE Append(IntToString(n \div 10), DigitChar(n % 10))

\* Array.prototype.slice(start, end) for 0 <= start
Slice(arr, start, end) ==
    LET e == IF end > Len(arr) THEN Len(arr) ELSE end
    IN  IF e <= start THEN <<>> ELSE [i \in 1..(e - start) |-> arr[start + i]]

\* the callback of the search filter
MatchesSearch(tablero, searchLower) ==
    \/ Includes(ToLowerCase(tablero.nombre), searchLower)
    \/ Includes(ToLowerCase(tablero.ubicacion), searchLower)
    \/ Includes(ToLowerCase(tablero.marca), searchLower)
    \/ Includes(ToLowerCase(tablero.estado), searchLower)

\* the callback of the year filter
MatchesYear(tablero, year) == IntToString(tablero.ano_fabricacion) = year

RECURSIVE FilterSearch(_, _)
FilterSearch(arr, searchLower) ==
    IF arr = <<>> THEN <<>>
    ELSE IF MatchesSearch(Head(arr), searchLower)
         THEN <<Head(arr)>> \o FilterSearch(Tail(arr), searchLower)
         ELSE FilterSearch(Tail(arr), searchLower)

RECURSIVE FilterYear(_, _)
FilterYear(arr, year) ==
    IF arr = <<>> THEN <<>>
    ELSE IF MatchesYear(Head(arr), year)
         THEN <<Head(arr)>> \o FilterYear(Tail(arr), year)
         ELSE FilterYear(Tail(arr), year)

\* filteredTableros with the year filter applied to tableros, not to filtered
FilteredTableros_YearOverridesSearch(tableros, term, year) ==
    IF Len(tableros) = 0 THEN <<>>
    ELSE LET bySearch == IF Trim(term) # <<>>
                         THEN FilterSearch(tableros, Trim(ToLowerCase(term)))
                         ELSE tableros
         IN  IF year # <<>> THEN FilterYear(tableros, year) ELSE bySearch

\* the filteredTableros memo
FilteredTableros(tableros, term, year) ==
    IF Len(tableros) = 0 THEN <<>>
    ELSE LET bySearch == IF Trim(term) # <<>>
                         THEN FilterSearch(tableros, Trim(ToLowerCase(term)))
                         ELSE tableros
         IN  IF year # <<>> THEN FilterYear(bySearch, year) ELSE bySearch

\* displayedTableros as a page window instead of a growing prefix
DisplayedTableros_Window(filtered, pg) ==
    IF Len(filtered) = 0 THEN <<>>
    ELSE Slice(filtered, (pg - 1) * ITEMS_PER_PAGE, pg * ITEMS_PER_PAGE)

\* displayedTableros cut one record short of the page boundary
DisplayedTableros_OffByOne(filtered, pg) ==
    IF Len(filtered) = 0 THEN <<>>
    ELSE Slice(filtered, 0, pg * ITEMS_PER_PAGE - 1)

\* the displayedTableros memo
DisplayedTableros(filtered, pg) ==
    IF Len(filtered) = 0 THEN <<>>
    ELSE Slice(filtered, 0, pg * ITEMS_PER_PAGE)

\* [...new Set(years)]: the distinct years in order of first occurrence
RECURSIVE Distinct(_)
Distinct(seq) ==
    IF seq = <<>> THEN <<>>
    ELSE LET rest == Distinct(SubSeq(seq, 1, Len(seq) - 1))
             last == seq[Len(seq)]
         IN  IF \E i \in 1..Len(rest) : rest[i] = last THEN rest ELSE Append(rest, last)

\* a.localeCompare(b) < 0 on strings of decimal digits
RECURSIVE DigitsLess(_, _)
DigitsLess(a, b) ==
    IF a = <<>> THEN b # <<>>
    ELSE IF b = <<>> THEN FALSE
    ELSE IF Head(a) = Head(b) THEN DigitsLess(Tail(a), Tail(b))
    ELSE \E i, j \in 0..9 : DigitChar(i) = Head(a) /\ DigitChar(j) = Head(b) /\ i < j

\* years.sort((a, b) => b.localeCompare(a)) on distinct strings
SortDescending(years) ==
    [k \in 1..Len(years) |->
        CHOOSE y \in {years[i] : i \in 1..Len(years)} :
            Cardinality({i \in 1..Len(years) : DigitsLess(y, years[i])}) = k - 1]

\* the availableYears memo
AvailableYears(tableros) ==
    IF Len(tableros) = 0 THEN <<>>
    ELSE SortDescending(
            Distinct([i \in 1..Len(tableros) |-> IntToString(tableros[i].ano_fabricacion)]))

\* a render whose filteredTableros memo lists only the collection among its
\* dependencies, so a change of the term or the year keeps the earlier value
Render_StaleMemo(d, term, year, pg) ==
    /\ filteredTableros' = IF d = data THEN filteredTableros
                           ELSE FilteredTableros(d, term, year)
    /\ displayedTableros' = DisplayedTableros(filteredTableros', pg)
    /\ availableYears' = AvailableYears(d)

\* a render of the screen with the given state: the three memos
Render(d, term, year, pg) ==
    /\ filteredTableros' = FilteredTableros(d, term, year)
    /\ displayedTableros' = DisplayedTableros(FilteredTableros(d, term, year), pg)
    /\ availableYears' = AvailableYears(d)

---------------------------------------------------------------------------
(* The create and edit forms: what handleSubmit reads and sends *)

IsDigit(c) == \E d \in 0..9 : DigitChar(d) = c
DigitValue(c) == CHOOSE d \in 0..9 : DigitChar(d) = c

RECURSIVE LeadingDigits(_)
LeadingDigits(s) ==
    IF s # <<>> /\ IsDigit(Head(s)) THEN <<Head(s)>> \o LeadingDigits(Tail(s)) ELSE <<>>

RECURSIVE DigitsValue(_)
DigitsValue(ds) ==
    IF ds = <<>> THEN 0
    ELSE 10 * DigitsValue(SubSeq(ds, 1, Len(ds) - 1)) + DigitValue(ds[Len(ds)])

\* parseInt(text): leading whitespace skipped, an optional sign, then the
\* leading decimal digits; NaN when there is none
ParseInt(text) ==
    LET s == TrimStart(text)
        negative == s # <<>> /\ Head(s) = "-"
        body == IF s # <<>> /\ Head(s) \in {"-", "+"} THEN Tail(s) ELSE s
        ds == LeadingDigits(body)
    IN  IF ds = <<>> THEN NaN
        ELSE Num(IF negative THEN 0 - DigitsValue(ds) ELSE DigitsValue(ds))

\* isNaN(text), that is Number(text) is NaN: blank text converts to 0, a
\* signed run of decimal digits to its value, anything else to NaN
JsIsNaN(text) ==
    LET s == Trim(text)
        body == IF s # <<>> /\ Head(s) \in {"-", "+"} THEN Tail(s) ELSE s
    IN  s # <<>> /\ (body = <<>> \/ LeadingDigits(body) # body)

MsgCapacidadNumero == "La capacidad debe ser un numero valido"

\* the early returns of handleSubmit: the message alerted, "" when none
FormError(formData) ==
    IF Trim(formData.nombre) = <<>> THEN MsgNombre
    ELSE IF Trim(formData.ubicacion) = <<>> THEN MsgUbicacion
    ELSE IF Trim(formData.marca) = <<>> THEN MsgMarca
    ELSE IF formData.capacidad_amperios = <<>> \/ JsIsNaN(formData.capacidad_amperios)
         THEN MsgCapacidadNumero
    ELSE ""

\* a form whose dataToSend carries the id of a record
DataToSend_WithId(formData) ==
    [id                 |-> 1,
     nombre             |-> formData.nombre,
     ubicacion          |-> formData.ubicacion,
     marca              |-> formData.marca,
     capacidad_amperios |-> ParseInt(formData.capacidad_amperios),
     ano_fabricacion    |-> ParseInt(formData.ano_fabricacion),
     ano_instalacion    |-> ParseInt(formData.ano_instalacion),
     estado             |-> formData.estado]

\* dataToSend = {...formData, capacidad_amperios: parseInt(...), ...}
DataToSend(formData) ==
    [id                 |-> NoId,
     nombre             |-> formData.nombre,
     ubicacion          |-> formData.ubicacion,
     marca              |-> formData.marca,
     capacidad_amperios |-> ParseInt(formData.capacidad_amperios),
     ano_fabricacion    |-> ParseInt(formData.ano_fabricacion),
     ano_instalacion    |-> ParseInt(formData.ano_instalacion),
     estado             |-> formData.estado]

---------------------------------------------------------------------------
(* TableroService: the remote data gateway *)

\* a tablero as the server returns it
Tablero(id, nombre, ubicacion, marca, estado, ano) ==
    [id |-> id, nombre |-> nombre, ubicacion |-> ubicacion, marca |-> marca,
     capacidad_amperios |-> 100, ano_fabricacion |-> ano, ano_instalacion |-> ano,
     estado |-> estado]

\* the value of a result's data field: null, the parsed JSON body, or the
\* confirmation object deleteTablero substitutes for a body that is not JSON
DataNull == [kind |-> "null", json |-> <<>>]
DataJson(j) == [kind |-> "json", json |-> j]
DataMessage == [kind |-> "message", json |-> <<"Eliminado exitosamente">>]

\* the value of a result's error field: null or the message, a list of parts
ErrorNull == <<>>

ServiceSuccess(body) == [success |-> TRUE, data |-> body, error |-> ErrorNull]
ServiceFailure(msg) == [success |-> FALSE, data |-> DataNull, error |-> msg]

\* what fetch() produces: a rejection (network failure), or a response with a
\* status, a body that response.json() parses or rejects, and, in a parsed
\* body, a detail field ("" when the body carries none).  The detail of a
\* parsed body is a text, or a list of error objects whose first message is
\* kept in detail (detailKind "list"); a body may also be the JSON value null.
NetworkFailure ==
    [net |-> TRUE, status |-> 0, parses |-> FALSE, json |-> <<>>, detail |-> "",
     detailKind |-> "none", nullBody |-> FALSE]
HttpResponse(status, parses, json, detail) ==
    [net |-> FALSE, status |-> status, parses |-> parses, json |-> json,
     detail |-> detail, detailKind |-> IF detail = "" THEN "none" ELSE "text",
     nullBody |-> FALSE]

\* a response whose body is {"detail": [{"msg": msg, ...}]}
ListDetailResponse(status, msg) ==
    [net |-> FALSE, status |-> status, parses |-> TRUE, json |-> <<>>,
     detail |-> msg, detailKind |-> "list", nullBody |-> FALSE]

\* a response whose body is the JSON text null
NullBodyResponse(status) ==
    [net |-> FALSE, status |-> status, parses |-> TRUE, json |-> <<>>,
     detail |-> "", detailKind |-> "none", nullBody |-> TRUE]

\* response.ok
ResponseOk(resp) == resp.status >= 200 /\ resp.status <= 299

StatusText(status) ==
    CASE status = 200 -> "200"
      [] status = 201 -> "201"
      [] status = 204 -> "204"
      [] status = 404 -> "404"
      [] status = 422 -> "422"
      [] status = 500 -> "500"
      [] OTHER -> "status"

MsgNetwork == <<"Network request failed">>
MsgJsonParse == <<"JSON Parse error">>

\* errorData.detail on errorData = null: the TypeError's message
MsgNullDetail == <<"Cannot read property 'detail' of null">>

\* new Error(detail).message for a detail that is a list of objects
MsgObjectObject == <<"[object Object]">>

\* errorData.detail || `Error al ... tablero: ${response.status}`, where
\* errorData = await response.json().catch(() => ({}))
DetailOrGeneric(resp, prefix) ==
    IF resp.parses /\ resp.nullBody THEN MsgNullDetail
    ELSE IF resp.parses /\ resp.detailKind = "text" THEN <<resp.detail>>
    ELSE IF resp.parses /\ resp.detailKind = "list" THEN MsgObjectObject
    ELSE <<prefix, StatusText(resp.status)>>

\* getAllTableros(): the result for what fetch produced
getAllTableros(resp) ==
    IF resp.net THEN ServiceFailure(MsgNetwork)
    ELSE IF ~ResponseOk(resp)
         THEN ServiceFailure(<<"Error al obtener tableros: ", StatusText(resp.status)>>)
    ELSE IF ~resp.parses THEN ServiceFailure(MsgJsonParse)
    ELSE ServiceSuccess(DataJson(resp.json))

\* createTablero without the response.ok test: any parsed body is a success
createTablero_NoOkCheck(resp) ==
    IF resp.net THEN ServiceFailure(MsgNetwork)
    ELSE IF ~resp.parses THEN ServiceFailure(MsgJsonParse)
    ELSE ServiceSuccess(DataJson(resp.json))

\* createTablero(tableroData): the result for what fetch produced
createTablero(resp) ==
    IF resp.net THEN ServiceFailure(MsgNetwork)
    ELSE IF ~ResponseOk(resp)
         THEN ServiceFailure(DetailOrGeneric(resp, "Error al crear tablero: "))
    ELSE IF ~resp.parses THEN ServiceFailure(MsgJsonParse)
    ELSE ServiceSuccess(DataJson(resp.json))

\* updateTablero(tableroId, tableroData): the result for what fetch produced
updateTablero(resp) ==
    IF resp.net THEN ServiceFailure(MsgNetwork)
    ELSE IF ~ResponseOk(resp)
         THEN ServiceFailure(DetailOrGeneric(resp, "Error al actualizar tablero: "))
    ELSE IF ~resp.parses THEN ServiceFailure(MsgJsonParse)
    ELSE ServiceSuccess(DataJson(resp.json))

\* deleteTablero without the .catch on response.json()
deleteTablero_NoCatch(resp) ==
    IF resp.net THEN ServiceFailure(MsgNetwork)
    ELSE IF ~ResponseOk(resp)
         THEN ServiceFailure(DetailOrGeneric(resp, "Error al eliminar tablero: "))
    ELSE IF ~resp.parses THEN ServiceFailure(MsgJsonParse)
    ELSE ServiceSuccess(DataJson(resp.json))

\* deleteTablero(tableroId): the result for what fetch produced
deleteTablero(resp) ==
    IF resp.net THEN ServiceFailure(MsgNetwork)
    ELSE IF ~ResponseOk(resp)
         THEN ServiceFailure(DetailOrGeneric(resp, "Error al eliminar tablero: "))
    ELSE IF ~resp.parses THEN ServiceSuccess(DataMessage)
    ELSE ServiceSuccess(DataJson(resp.json))

ServiceResult(op, resp) ==
    CASE op = "getAllTableros" -> getAllTableros(resp)
      [] op = "createTablero" -> createTablero(resp)
      [] op = "updateTablero" -> updateTablero(resp)
      [] op = "deleteTablero" -> deleteTablero(resp)

---------------------------------------------------------------------------
(* The collections the server answers with, and what the user types *)

MaxRecords == 25

\* the i-th tablero of the server
Rec(i) ==
    CASE i % 5 = 1 -> Tablero(i, <<"A", "l", "a", " ", "N", "o", "r", "t", "e">>, <<"P", "1">>, <<"A", "B", "B">>, Operativo, 2021)
      [] i % 5 = 2 -> Tablero(i, <<"S", "a", "l", "a", " ", "S", "u", "r">>, <<"P", "2">>, <<"A", "B", "B">>, Mantenimiento, 2019)
      [] i % 5 = 3 -> Tablero(i, <<"T", "3">>, <<"N", "O", "R", "T", "E">>, <<"S", "i", "e">>, Operativo, 2019)
      [] i % 5 = 4 -> Tablero(i, <<"T", "4">>, <<"P", "4">>, <<"n", "o", "r">>, FueraDeServicio, 2020)
      [] OTHER -> Tablero(i, <<"T", "5">>, <<"P", "5">>, <<"S", "i", "e">>, Operativo, 2021)

ServerCollection(n) == [i \in 1..n |-> Rec(i)]

\* none; one record; three records in another order; 11 records; all
Collections ==
    {<<>>, <<Rec(2)>>, <<Rec(4), Rec(3), Rec(1)>>, ServerCollection(ITEMS_PER_PAGE + 1),
     ServerCollection(MaxRecords)}

SearchTerms == {<<>>, <<" ">>, <<"n", "o", "r", "t", "e">>, <<" ", "N", "O", "R", " ">>, <<"a", " ", "s">>, <<"m", "a", "n">>, <<"x", "y", "z">>}

---------------------------------------------------------------------------
(* The gateway on its own: one operation awaited at a time *)

GatewayOps == {"getAllTableros", "createTablero", "updateTablero", "deleteTablero"}

Statuses == {200, 201, 204, 404, 422, 500}
Details == {"", "Tablero no encontrado"}

T1 == Tablero(1, <<"a">>, <<"a">>, <<"a">>, <<"a">>, 2021)

JsonBodies == {<<>>, <<T1>>}

Responses ==
    {NetworkFailure}
    \cup {HttpResponse(st, FALSE, <<>>, "") : st \in Statuses}
    \cup {HttpResponse(st, TRUE, j, d) : st \in Statuses, j \in JsonBodies, d \in Details}
    \cup {ListDetailResponse(422, "field required")}
    \cup {NullBodyResponse(st) : st \in {200, 500}}

\* the argument of an invocation (tableroData, tableroId): one that
\* JSON.stringify and the URL template accept, or one they throw on (a cyclic
\* object or a BigInt field in tableroData, a Symbol as tableroId)
PlainArg == [serializable |-> TRUE]
ThrowingArg == [serializable |-> FALSE]
GatewayArgs == {PlainArg, ThrowingArg}

\* getAllTableros builds its request from constants only
BuildThrows(op, arg) == op # "getAllTableros" /\ ~arg.serializable

MsgBuild == <<"TypeError">>

\* where an operation throws for what fetch produced: fetch rejects, the
\* operation throws for a response that is not ok, or response.json() rejects
\* and the operation has no .catch on it; "none" when nothing is thrown
ThrowPoint(op, resp) ==
    IF resp.net THEN "fetch"
    ELSE IF ~ResponseOk(resp) THEN "status"
    ELSE IF ~resp.parses /\ op # "deleteTablero" THEN "json"
    ELSE "none"

\* an operation whose fetch arguments are evaluated before its try block
InsideTry_BuildOutside(op, point) == point # "build"

\* every statement of every operation stands between try { and } catch
InsideTry(op, point) == TRUE

NoCall == "none"
NoResponse == [net |-> FALSE, status |-> 0, parses |-> FALSE, json |-> <<>>,
               detail |-> "no response", detailKind |-> "none", nullBody |-> FALSE]
NoResult == [success |-> FALSE, data |-> DataNull, error |-> <<"no result">>]

\* retry: 2 of the query client's default options
Retry == 2

MaxRequests == 2

MutationOps == {"createTablero", "updateTablero", "deleteTablero"}

SuccessMsg(op) ==
    CASE op = "createTablero" -> "Tablero creado correctamente"
      [] op = "updateTablero" -> "Tablero actualizado correctamente"
      [] op = "deleteTablero" -> "Tablero eliminado correctamente"

\* onError of useCreateTablero / useUpdateTablero / useDeleteTablero
HookErrorAlerts(op) ==
    CASE op = "createTablero" -> {"No se pudo crear el tablero"}
      [] op = "updateTablero" -> {"No se pudo actualizar el tablero"}
      [] op = "deleteTablero" -> {"No se pudo eliminar el tablero"}

\* the onError callbacks passed to mutate(); the list passes none for a delete
ErrorAlerts(op) ==
    CASE op = "createTablero" -> {"No se pudo crear el tablero"}
      [] op = "updateTablero" -> {"No se pudo actualizar el tablero"}
      [] op = "deleteTablero" -> {}

NoBody == [id |-> NoId, nombre |-> <<>>, ubicacion |-> <<>>, marca |-> <<>>,
           capacidad_amperios |-> Undef, ano_fabricacion |-> Undef,
           ano_instalacion |-> Undef, estado |-> <<>>]

\* an HTTP request that has left: the operation, the tablero id of its URL
\* (NoId for /tableros/), the JSON body, and the number of the request
Request(op, target, body, n) == [op |-> op, target |-> target, body |-> body, n |-> n]

IdleMutation == [status |-> "idle", data |-> NoResult, current |-> 0]

NoQuery == [status |-> "none", data |-> <<>>, isInvalidated |-> FALSE,
            fetching |-> 0, failureCount |-> 0]

AppIdle ==
    /\ nav = "Inicio"
    /\ listMounted = FALSE
    /\ editing = NoId
    /\ confirmDelete = NoId
    /\ alerts = {}
    /\ mutation = [op \in MutationOps |-> IdleMutation]
    /\ query = NoQuery
    /\ inFlight = {}
    /\ requestsIssued = 0

MaxToggles == 2

STORAGE_KEY == "@theme_preference"

\* AsyncStorage.getItem(key): the stored text, or null
NullItem == "<null>"
GetItem(store, key) ==
    IF \E item \in store : item.key = key
    THEN (CHOOSE item \in store : item.key = key).value
    ELSE NullItem

\* AsyncStorage.setItem(key, value)
SetItem(store, key, value) ==
    {item \in store : item.key # key} \cup {[key |-> key, value |-> value]}

\* a toggleTheme that stores the text of the theme it leaves
ThemeText_Inverted(dark) == IF dark THEN "light" ELSE "dark"

\* newTheme ? 'dark' : 'light'
ThemeText(dark) == IF dark THEN "dark" ELSE "light"

\* savedTheme === 'dark'
IsDarkText(text) == text = "dark"

\* the state of a ThemeProvider that has just mounted over the given storage:
\* useState(false), useState(true), and the getItem of loadThemePreference,
\* which the storage serves before any later write
ThemeStarted(store) ==
    /\ isDarkMode = FALSE
    /\ themeLoad = "pending"
    /\ savedTheme = GetItem(store, STORAGE_KEY)
    /\ pendingWrites = <<>>
    /\ toggles = 0

NotToggled == [dark |-> FALSE, persisted |-> FALSE, load |-> "none"]

ThemeIdle ==
    /\ storage = {}
    /\ ThemeStarted({})
    /\ newTheme = FALSE
    /\ lastWrite = "none"
    /\ storageFailed = FALSE
    /\ beforeToggle = NotToggled

\* a missing id: undefined or null; otherwise the id is a string
IdUndefined == [t |-> "undefined", v |-> <<>>]
IdNull == [t |-> "null", v |-> <<>>]
IdText(s) == [t |-> "string", v |-> s]

\* no page update is waiting for a render
PagerIdle == queuedUpdates = 0

\* the useState values of the list revision with the load-more timer
TimerListState ==
    /\ loadedTableros = <<>>
    /\ loading = TRUE
    /\ refreshing = FALSE
    /\ loadingMore = FALSE
    /\ timers = {}

\* that revision is not mounted
TimerIdle == TimerListState /\ loads = 0

ControllerIdle ==
    /\ ctlId = IdUndefined
    /\ ctlPc = "idle"
    /\ ctlResult = NoResult

ListIdle ==
    /\ data = <<>>
    /\ isLoading = TRUE
    /\ searchTerm = <<>>
    /\ selectedYear = <<>>
    /\ page = 1
    /\ filteredTableros = <<>>
    /\ displayedTableros = <<>>
    /\ availableYears = <<>>
    /\ effectPending = FALSE

NoValidation == [isValid |-> FALSE, errors |-> <<"not validated">>]

ValidatorIdle ==
    /\ candidate = [id |-> NoId, nombre |-> <<>>, ubicacion |-> <<>>, marca |-> <<>>,
                    capacidad_amperios |-> Undef, ano_fabricacion |-> Undef,
                    ano_instalacion |-> Undef, estado |-> <<>>]
    /\ validation = NoValidation

GatewayIdle ==
    /\ gwCall = NoCall
    /\ gwResponse = NoResponse
    /\ gwResult = NoResult
    /\ gwRequests = 0
    /\ gwArg = PlainArg
    /\ gwPc = "idle"

InitGateway ==
    /\ GatewayIdle
    /\ ValidatorIdle
    /\ ListIdle
    /\ AppIdle
    /\ ThemeIdle
    /\ ControllerIdle
    /\ PagerIdle
    /\ TimerIdle

\* an operation is invoked with its argument
GatewayInvoke(op, arg) ==
    /\ gwPc = "idle"
    /\ gwCall' = op
    /\ gwArg' = arg
    /\ gwPc' = "build"
    /\ gwRequests' = 0
    /\ gwResponse' = NoResponse
    /\ gwResult' = NoResult
    /\ UNCHANGED nonGatewayVars

\* the operation evaluates the arguments of fetch(...) and calls it: the HTTP
\* request leaves, unless building it throws, which the catch block turns
\* into the returned result
GatewayFetch ==
    /\ gwPc = "build"
    /\ IF BuildThrows(gwCall, gwArg)
       THEN /\ IF InsideTry(gwCall, "build")
               THEN gwResult' = ServiceFailure(MsgBuild) /\ gwPc' = "returned"
               ELSE gwResult' = gwResult /\ gwPc' = "threw"
            /\ UNCHANGED gwRequests
       ELSE /\ gwRequests' = gwRequests + 1
            /\ gwPc' = "await"
            /\ UNCHANGED gwResult
    /\ UNCHANGED <<gwCall, gwArg, gwResponse, nonGatewayVars>>

\* an operation that calls fetch again after a failure
GatewayReturn_Retry(resp) ==
    /\ gwPc = "await"
    /\ IF ~ServiceResult(gwCall, resp).success /\ gwRequests < 2
       THEN /\ gwRequests' = gwRequests + 1
            /\ UNCHANGED <<gwResponse, gwResult, gwPc>>
       ELSE /\ gwResponse' = resp
            /\ gwResult' = ServiceResult(gwCall, resp)
            /\ gwPc' = "returned"
            /\ UNCHANGED gwRequests
    /\ UNCHANGED <<gwCall, gwArg, nonGatewayVars>>

\* fetch settles and the operation returns its result
GatewayReturn(resp) ==
    /\ gwPc = "await"
    /\ gwResponse' = resp
    /\ IF ThrowPoint(gwCall, resp) = "none" \/ InsideTry(gwCall, ThrowPoint(gwCall, resp))
       THEN gwResult' = ServiceResult(gwCall, resp) /\ gwPc' = "returned"
       ELSE gwResult' = gwResult /\ gwPc' = "threw"
    /\ UNCHANGED <<gwCall, gwArg, gwRequests, nonGatewayVars>>

\* the caller has its result; the next invocation may start
GatewayDone ==
    /\ gwPc \in {"returned", "threw"}
    /\ gwCall' = NoCall
    /\ gwPc' = "idle"
    /\ UNCHANGED <<gwArg, gwResponse, gwResult, gwRequests, nonGatewayVars>>

NextGateway ==
    \/ \E op \in GatewayOps, arg \in GatewayArgs : GatewayInvoke(op, arg)
    \/ GatewayFetch
    \/ \E resp \in Responses : GatewayReturn(resp)
    \/ GatewayDone

SpecGateway == InitGateway /\ [][NextGateway]_vars

---------------------------------------------------------------------------
(* TableroController.deleteTablero over the gateway *)

\* !tableroId
IdFalsy(id) == id.t \in {"undefined", "null"} \/ (id.t = "string" /\ id.v = <<>>)

MsgIdNoValido == <<"ID de tablero no valido">>

\* the ids the controller is called with: missing, empty, and texts
TableroIds ==
    {IdUndefined, IdNull, IdText(<<>>), IdText(<<"7">>), IdText(<<"0">>),
     IdText(<<" ">>), IdText(<<"a", "b">>)}

InitController ==
    /\ ControllerIdle
    /\ GatewayIdle
    /\ ValidatorIdle
    /\ ListIdle
    /\ AppIdle
    /\ ThemeIdle
    /\ PagerIdle
    /\ TimerIdle

\* a deleteTablero whose guard lets every id through to the gateway
ControllerDelete_NoGuard(tableroId) ==
    /\ ctlPc = "idle"
    /\ ctlId' = tableroId
    /\ ctlPc' = "calling"
    /\ ctlResult' = NoResult
    /\ UNCHANGED <<gwCall, gwResponse, gwResult, gwRequests, gwArg, gwPc,
                   candidate, validation, listVars, appVars, themeVars, pagerVars,
                   timerVars>>

\* deleteTablero(tableroId): the early return for a falsy id, else the call
\* of TableroService.deleteTablero is reached
ControllerDelete(tableroId) ==
    /\ ctlPc = "idle"
    /\ ctlId' = tableroId
    /\ IF IdFalsy(tableroId)
       THEN ctlPc' = "returned" /\ ctlResult' = ServiceFailure(MsgIdNoValido)
       ELSE ctlPc' = "calling" /\ ctlResult' = NoResult
    /\ UNCHANGED <<gwCall, gwResponse, gwResult, gwRequests, gwArg, gwPc,
                   candidate, validation, listVars, appVars, themeVars, pagerVars,
                   timerVars>>

\* TableroService.deleteTablero(tableroId) is invoked
ControllerCallsGateway ==
    /\ ctlPc = "calling"
    /\ GatewayInvoke("deleteTablero", PlainArg)

\* const result = await TableroService.deleteTablero(tableroId); return result
ControllerResult(result) == result

\* the awaited gateway call settles and the controller returns, or the
\* exception that left the gateway leaves the controller too
ControllerReturn ==
    /\ ctlPc = "calling"
    /\ gwPc \in {"returned", "threw"}
    /\ IF gwPc = "returned"
       THEN ctlPc' = "returned" /\ ctlResult' = ControllerResult(gwResult)
       ELSE ctlPc' = "threw" /\ ctlResult' = ctlResult
    /\ gwCall' = NoCall
    /\ gwPc' = "idle"
    /\ UNCHANGED <<ctlId, gwArg, gwResponse, gwResult, gwRequests,
                   candidate, validation, listVars, appVars, themeVars, pagerVars,
                   timerVars>>

\* the caller has the controller's result; the next call may start
ControllerDone ==
    /\ ctlPc \in {"returned", "threw"}
    /\ ctlPc' = "idle"
    /\ ctlResult' = NoResult
    /\ gwResponse' = NoResponse
    /\ gwResult' = NoResult
    /\ gwRequests' = 0
    /\ UNCHANGED <<ctlId, gwCall, gwArg, gwPc,
                   candidate, validation, listVars, appVars, themeVars, pagerVars,
                   timerVars>>

NextController ==
    \/ \E tableroId \in TableroIds : ControllerDelete(tableroId)
    \/ ControllerCallsGateway
    \/ GatewayFetch
    \/ \E resp \in Responses : GatewayReturn(resp)
    \/ ControllerReturn
    \/ ControllerDone

SpecController == InitController /\ [][NextController]_vars

---------------------------------------------------------------------------
(* The list screen *)

InitList ==
    /\ ListIdle
    /\ ValidatorIdle
    /\ GatewayIdle
    /\ AppIdle
    /\ ThemeIdle
    /\ ControllerIdle
    /\ PagerIdle
    /\ TimerIdle

\* no effect of an earlier render is waiting: React flushes the passive effects
\* of a render before it handles the next event or update
EffectsFlushed == effectPending = FALSE

\* useTableros() delivers the result of a fetch: the first load or a refetch.
\* Unchanged content keeps the same array (structural sharing).
QueryData(c) ==
    /\ EffectsFlushed
    /\ isLoading \/ c # data
    /\ data' = c
    /\ isLoading' = FALSE
    /\ Render(c, searchTerm, selectedYear, page)
    /\ effectPending' = TRUE
    /\ UNCHANGED <<searchTerm, selectedYear, page, nonListVars>>

\* onChangeText={setSearchTerm}, and the clear button setSearchTerm('')
SetSearchTerm(text) ==
    /\ EffectsFlushed /\ ~isLoading
    /\ text # searchTerm
    /\ searchTerm' = text
    /\ Render(data, text, selectedYear, page)
    /\ effectPending' = TRUE
    /\ UNCHANGED <<data, isLoading, selectedYear, page, nonListVars>>

\* applyYearFilter with selectedYear missing from the effect's dependencies
applyYearFilter_NoReset(year) ==
    /\ EffectsFlushed /\ ~isLoading
    /\ selectedYear' = year
    /\ Render(data, searchTerm, year, page)
    /\ effectPending' = FALSE
    /\ UNCHANGED <<data, isLoading, searchTerm, page, nonListVars>>

\* applyYearFilter(year): an entry of the modal, 'Todos los anos' or a year
applyYearFilter(year) ==
    /\ EffectsFlushed /\ ~isLoading
    /\ selectedYear' = year
    /\ Render(data, searchTerm, year, page)
    /\ effectPending' = (year # selectedYear)
    /\ UNCHANGED <<data, isLoading, searchTerm, page, nonListVars>>

\* clearFilters()
clearFilters ==
    /\ EffectsFlushed /\ ~isLoading
    /\ searchTerm' = <<>>
    /\ selectedYear' = <<>>
    /\ Render(data, <<>>, <<>>, page)
    /\ effectPending' = (searchTerm # <<>> \/ selectedYear # <<>>)
    /\ UNCHANGED <<data, isLoading, page, nonListVars>>

\* useEffect(() => { setPage(1) }, [data, isLoading, searchTerm, selectedYear])
PageResetEffect ==
    /\ effectPending
    /\ page' = 1
    /\ Render(data, searchTerm, selectedYear, 1)
    /\ effectPending' = FALSE
    /\ UNCHANGED <<data, isLoading, searchTerm, selectedYear, nonListVars>>

\* loadMoreTableros without its early return
loadMoreTableros_NoGuard ==
    /\ EffectsFlushed /\ ~isLoading
    /\ page' = page + 1
    /\ Render(data, searchTerm, selectedYear, page + 1)
    /\ UNCHANGED <<data, isLoading, searchTerm, selectedYear, effectPending,
                   nonListVars>>

\* loadMoreTableros(), the list's onEndReached
loadMoreTableros ==
    /\ EffectsFlushed /\ ~isLoading
    /\ IF Len(displayedTableros) >= Len(filteredTableros)
       THEN UNCHANGED <<page, filteredTableros, displayedTableros, availableYears>>
       ELSE /\ page' = page + 1
            /\ Render(data, searchTerm, selectedYear, page + 1)
    /\ UNCHANGED <<data, isLoading, searchTerm, selectedYear, effectPending,
                   nonListVars>>

YearOptions == {<<>>} \cup {availableYears[i] : i \in 1..Len(availableYears)}

NextList ==
    \/ \E c \in Collections : QueryData(c)
    \/ \E text \in SearchTerms : SetSearchTerm(text)
    \/ \E year \in YearOptions : applyYearFilter(year)
    \/ clearFilters
    \/ PageResetEffect
    \/ loadMoreTableros

SpecList == InitList /\ [][NextList]_vars

---------------------------------------------------------------------------
(* The list screen when the end of the list is reached before a render *)

MaxQueued == 2

\* onEndReached calls the loadMoreTableros of the last render: its early
\* return reads the displayedTableros and filteredTableros of that render,
\* and setPage(prevPage => prevPage + 1) queues an update
onEndReached ==
    /\ EffectsFlushed /\ ~isLoading
    /\ queuedUpdates < MaxQueued
    /\ Len(displayedTableros) < Len(filteredTableros)
    /\ queuedUpdates' = queuedUpdates + 1
    /\ UNCHANGED <<listVars, candidate, validation, gwCall, gwResponse, gwResult,
                   gwRequests, gwArg, gwPc, appVars, themeVars, ctlVars, timerVars>>

\* the screen renders: the queued updaters are applied to page in order
RenderQueued ==
    /\ queuedUpdates > 0
    /\ page' = page + queuedUpdates
    /\ Render(data, searchTerm, selectedYear, page + queuedUpdates)
    /\ queuedUpdates' = 0
    /\ UNCHANGED <<data, isLoading, searchTerm, selectedYear, effectPending,
                   candidate, validation, gwCall, gwResponse, gwResult,
                   gwRequests, gwArg, gwPc, appVars, themeVars, ctlVars, timerVars>>

\* the other events of the screen find it rendered
Rendered == queuedUpdates = 0

NextListScroll ==
    \/ \E c \in Collections : Rendered /\ QueryData(c)
    \/ \E text \in SearchTerms : Rendered /\ SetSearchTerm(text)
    \/ \E year \in YearOptions : Rendered /\ applyYearFilter(year)
    \/ Rendered /\ clearFilters
    \/ Rendered /\ PageResetEffect
    \/ onEndReached
    \/ RenderQueued

SpecListScroll == InitList /\ [][NextListScroll]_vars

---------------------------------------------------------------------------
(* The list screen of the revision whose load-more runs after a timer *)

MaxLoads == 2

MaxPages == 4

\* TableroElectricoModel.fromJSON on a record of the server
fromJSON(json) ==
    [id                 |-> json.id,
     nombre             |-> json.nombre,
     ubicacion          |-> json.ubicacion,
     marca              |-> json.marca,
     capacidad_amperios |-> IF json.capacidad_amperios # 0
                            THEN json.capacidad_amperios ELSE 0,
     ano_fabricacion    |-> IF json.ano_fabricacion # 0
                            THEN json.ano_fabricacion ELSE CurrentYear,
     ano_instalacion    |-> IF json.ano_instalacion # 0
                            THEN json.ano_instalacion ELSE CurrentYear,
     estado             |-> IF json.estado = <<>> THEN Operativo ELSE json.estado]

\* TableroController.getTableros(): the records of a successful result are
\* mapped to models, a failure is returned as it is
getTableros(resp) ==
    LET result == getAllTableros(resp)
    IN  IF result.success
        THEN ServiceSuccess(DataJson([i \in 1..Len(result.data.json) |->
                                          fromJSON(result.data.json[i])]))
        ELSE result

\* result.data.map(...) throws when the body is not an array
getTablerosThrows(resp) == getAllTableros(resp).success /\ resp.nullBody

MsgNoCargados == <<"No se pudieron cargar los tableros">>
MsgConectar == <<"Error al conectar con el servidor">>
MsgEliminado == <<"Tablero eliminado correctamente">>
MsgNoEliminado == <<"No se pudo eliminar el tablero">>

\* result.error || fallback
ErrorOr(result, fallback) == IF result.error # <<>> THEN result.error ELSE fallback

\* what GET /tableros/ answers over time: the full collection, the collection
\* after its first record was deleted, a short one, and failures
TimerCollections ==
    {ServerCollection(MaxRecords), Tail(ServerCollection(MaxRecords)),
     ServerCollection(ITEMS_PER_PAGE + 1)}

TimerLoadResponses ==
    {NetworkFailure, NullBodyResponse(200)}
        \cup {HttpResponse(200, TRUE, c, "") : c \in TimerCollections}

TimerDeleteResponses == {NetworkFailure, HttpResponse(204, FALSE, <<>>, "")}

\* everything this revision of the screen neither reads nor writes
nonTimerVars == <<candidate, validation, gwCall, gwResponse, gwResult, gwRequests,
                  gwArg, gwPc, data, isLoading, searchTerm, selectedYear,
                  filteredTableros, availableYears, effectPending,
                  nav, listMounted, editing, confirmDelete, mutation, query,
                  inFlight, requestsIssued, themeVars, ctlVars, pagerVars>>

\* the screen has mounted and its focus effect has called loadTableros()
InitTimerList ==
    /\ TimerListState
    /\ loads = 1
    /\ ValidatorIdle
    /\ GatewayIdle
    /\ ListIdle
    /\ AppIdle
    /\ ThemeIdle
    /\ ControllerIdle
    /\ PagerIdle

\* the FlatList is on screen: neither the loading view nor the empty view
TimerListShown == ~loading /\ loadedTableros # <<>> /\ alerts = {}

\* useFocusEffect: the screen is focused again and calls loadTableros()
FocusEffect ==
    /\ alerts = {}
    /\ loads < MaxLoads
    /\ loads' = loads + 1
    /\ UNCHANGED <<loadedTableros, displayedTableros, page, loading, refreshing,
                   loadingMore, timers, alerts, nonTimerVars>>

\* onRefresh(): setRefreshing(true); loadTableros()
onRefresh ==
    /\ TimerListShown
    /\ loads < MaxLoads
    /\ refreshing' = TRUE
    /\ loads' = loads + 1
    /\ UNCHANGED <<loadedTableros, displayedTableros, page, loading, loadingMore,
                   timers, alerts, nonTimerVars>>

\* loadTableros(): the awaited getTableros() settles
LoadSettles(resp) ==
    /\ loads > 0
    /\ loads' = loads - 1
    /\ LET result == getTableros(resp)
       IN  IF getTablerosThrows(resp)
           THEN /\ alerts' = alerts \cup {MsgConectar}
                /\ UNCHANGED <<loadedTableros, displayedTableros, page>>
           ELSE IF result.success
           THEN /\ loadedTableros' = result.data.json
                /\ displayedTableros' = Slice(result.data.json, 0, ITEMS_PER_PAGE)
                /\ page' = 1
                /\ UNCHANGED alerts
           ELSE /\ alerts' = alerts \cup {ErrorOr(result, MsgNoCargados)}
                /\ UNCHANGED <<loadedTableros, displayedTableros, page>>
    /\ loading' = FALSE
    /\ refreshing' = FALSE
    /\ UNCHANGED <<loadingMore, timers, nonTimerVars>>

\* what the callback handed to setTimeout captures: the page,
\* displayedTableros and tableros of the render that called loadMoreTableros
TimerClosure(pg, shown, all) == [page |-> pg, displayed |-> shown, tableros |-> all]

\* loadMoreTableros(), the list's onEndReached: the early return, else
\* setLoadingMore(true) and the 500 ms timer is started
TimerLoadMore ==
    /\ TimerListShown
    /\ ~(loadingMore \/ Len(displayedTableros) >= Len(loadedTableros))
    /\ page < MaxPages
    /\ loadingMore' = TRUE
    /\ timers' = timers \cup {TimerClosure(page, displayedTableros, loadedTableros)}
    /\ UNCHANGED <<loadedTableros, displayedTableros, page, loading, refreshing,
                   loads, alerts, nonTimerVars>>

\* the timer fires: the next page is appended to the displayedTableros of the
\* closure and page becomes the closure's page + 1
TimerFires(t) ==
    /\ t \in timers
    /\ LET startIndex == t.page * ITEMS_PER_PAGE
           newItems == Slice(t.tableros, startIndex, startIndex + ITEMS_PER_PAGE)
       IN  displayedTableros' = t.displayed \o newItems
    /\ page' = t.page + 1
    /\ loadingMore' = FALSE
    /\ timers' = timers \ {t}
    /\ UNCHANGED <<loadedTableros, loading, refreshing, loads, alerts, nonTimerVars>>

\* 'Eliminar' of handleDelete: the awaited TableroController.deleteTablero
\* settles; after a success the list is loaded again
TimerDeleteSettles(resp) ==
    /\ TimerListShown
    /\ displayedTableros # <<>>
    /\ loads < MaxLoads
    /\ LET result == ControllerResult(ServiceResult("deleteTablero", resp))
       IN  IF result.success
           THEN /\ alerts' = alerts \cup {MsgEliminado}
                /\ loads' = loads + 1
           ELSE /\ alerts' = alerts \cup {ErrorOr(result, MsgNoEliminado)}
                /\ UNCHANGED loads
    /\ UNCHANGED <<loadedTableros, displayedTableros, page, loading, refreshing,
                   loadingMore, timers, nonTimerVars>>

\* the OK button of an alert
TimerDismissAlert(msg) ==
    /\ msg \in alerts
    /\ alerts' = alerts \ {msg}
    /\ UNCHANGED <<loadedTableros, displayedTableros, page, loading, refreshing,
                   loadingMore, timers, loads, nonTimerVars>>

NextTimerList ==
    \/ FocusEffect
    \/ onRefresh
    \/ \E resp \in TimerLoadResponses : LoadSettles(resp)
    \/ TimerLoadMore
    \/ \E t \in timers : TimerFires(t)
    \/ \E resp \in TimerDeleteResponses : TimerDeleteSettles(resp)
    \/ \E msg \in alerts : TimerDismissAlert(msg)

SpecTimerList == InitTimerList /\ [][NextTimerList]_vars

---------------------------------------------------------------------------
(* The screens, the React Query mutations and the ['tableros'] query *)

\* an Alert is modal: nothing under it can be pressed
NoDialog == alerts = {} /\ confirmDelete = NoId

\* the list is on screen with its records: neither the loading nor the error view
ListShown ==
    /\ nav = "Dashboard" /\ editing = NoId /\ listMounted
    /\ query.status = "success"

\* the fetch a query starts: GET /tableros/ as request n
FetchStarted(q, n) == [q EXCEPT !.fetching = n, !.failureCount = 0]
GetRequest(n) == Request("getAllTableros", NoId, NoBody, n)

\* invalidateQueries left out of the mutation's onSuccess
Invalidated_Skipped(q, n) == q

\* queryClient.invalidateQueries({ queryKey: ['tableros'] }): the query is
\* marked invalidated and, when the list observes it, fetched again; a fetch
\* already running is cancelled and its response ignored
Invalidated(q, n) ==
    IF q.status = "none" THEN q
    ELSE IF listMounted THEN [FetchStarted(q, n) EXCEPT !.isInvalidated = TRUE]
    ELSE [q EXCEPT !.isInvalidated = TRUE]

InvalidationRequests(q, n) ==
    IF q.status # "none" /\ listMounted THEN {GetRequest(n)} ELSE {}

\* onSuccess of useCreateTablero / useUpdateTablero / useDeleteTablero
HookOnSuccess(q, n) == Invalidated(q, n)

\* the tab bar; the first visit of Dashboard mounts the list, whose
\* useTableros() starts the first fetch
NavigateTab(tab) ==
    /\ NoDialog
    /\ tab # nav
    /\ nav' = tab
    /\ IF tab = "Dashboard" /\ ~listMounted
       THEN /\ listMounted' = TRUE
            /\ requestsIssued' = requestsIssued + 1
            /\ query' = FetchStarted([NoQuery EXCEPT !.status = "pending"],
                                     requestsIssued + 1)
            /\ inFlight' = inFlight \cup {GetRequest(requestsIssued + 1)}
       ELSE UNCHANGED <<listMounted, requestsIssued, query, inFlight>>
    /\ UNCHANGED <<editing, confirmDelete, alerts, mutation, nonAppVars>>

\* onRefresh={() => refetch()} and the error view's retry button
Refetch ==
    /\ NoDialog
    /\ nav = "Dashboard" /\ editing = NoId /\ listMounted
    /\ query.status \in {"success", "error"}
    /\ query.fetching = 0
    /\ requestsIssued < MaxRequests
    /\ requestsIssued' = requestsIssued + 1
    /\ query' = FetchStarted(query, requestsIssued + 1)
    /\ inFlight' = inFlight \cup {GetRequest(requestsIssued + 1)}
    /\ UNCHANGED <<nav, listMounted, editing, confirmDelete, alerts, mutation,
                   nonAppVars>>

\* mutation.mutate(variables, callbacks): the mutation is pending and the
\* service call of its mutationFn leaves
Mutate(op, target, body) ==
    /\ requestsIssued' = requestsIssued + 1
    /\ mutation' = [mutation EXCEPT
                       ![op] = [status |-> "pending", data |-> NoResult,
                                current |-> requestsIssued + 1]]
    /\ inFlight' = inFlight \cup {Request(op, target, body, requestsIssued + 1)}

\* a create form whose submit button stays enabled while its mutation is pending
CreateHandleSubmit_AlwaysEnabled(formData) ==
    /\ NoDialog
    /\ nav = "Crear"
    /\ requestsIssued < MaxRequests
    /\ IF FormError(formData) # ""
       THEN /\ alerts' = alerts \cup {FormError(formData)}
            /\ UNCHANGED <<mutation, inFlight, requestsIssued>>
       ELSE /\ Mutate("createTablero", NoId, DataToSend(formData))
            /\ UNCHANGED alerts
    /\ UNCHANGED <<nav, listMounted, editing, confirmDelete, query, nonAppVars>>

\* CreateTableroView.handleSubmit; the button is disabled while isPending
CreateHandleSubmit(formData) ==
    /\ NoDialog
    /\ nav = "Crear"
    /\ mutation["createTablero"].status # "pending"
    /\ requestsIssued < MaxRequests
    /\ IF FormError(formData) # ""
       THEN /\ alerts' = alerts \cup {FormError(formData)}
            /\ UNCHANGED <<mutation, inFlight, requestsIssued>>
       ELSE /\ Mutate("createTablero", NoId, DataToSend(formData))
            /\ UNCHANGED alerts
    /\ UNCHANGED <<nav, listMounted, editing, confirmDelete, query, nonAppVars>>

\* TablerosListView.handleEdit: navigation.navigate('EditTablero', { tablero })
handleEdit(tablero) ==
    /\ NoDialog
    /\ ListShown
    /\ editing' = tablero.id
    /\ mutation' = [mutation EXCEPT !["updateTablero"] = IdleMutation]
    /\ UNCHANGED <<nav, listMounted, confirmDelete, alerts, query, inFlight,
                   requestsIssued, nonAppVars>>

\* EditTableroView.handleSubmit; the button is disabled while isPending
EditHandleSubmit(formData) ==
    /\ NoDialog
    /\ nav = "Dashboard" /\ editing # NoId
    /\ mutation["updateTablero"].status # "pending"
    /\ requestsIssued < MaxRequests
    /\ IF FormError(formData) # ""
       THEN /\ alerts' = alerts \cup {FormError(formData)}
            /\ UNCHANGED <<mutation, inFlight, requestsIssued>>
       ELSE /\ Mutate("updateTablero", editing, DataToSend(formData))
            /\ UNCHANGED alerts
    /\ UNCHANGED <<nav, listMounted, editing, confirmDelete, query, nonAppVars>>

\* the edit screen is left, by handleCancel answered 'Si, cancelar' or by the
\* system back gesture: navigation.goBack() unmounts the screen and with it
\* the observer of its mutation; nothing aborts a request in flight
EditGoBack ==
    /\ NoDialog
    /\ nav = "Dashboard" /\ editing # NoId
    /\ editing' = NoId
    /\ mutation' = [mutation EXCEPT !["updateTablero"] = IdleMutation]
    /\ UNCHANGED <<nav, listMounted, confirmDelete, alerts, query, inFlight,
                   requestsIssued, nonAppVars>>

\* a handleDelete that deletes at once, without the confirmation dialog
handleDelete_NoConfirm(tablero) ==
    /\ NoDialog
    /\ ListShown
    /\ requestsIssued < MaxRequests
    /\ Mutate("deleteTablero", tablero.id, NoBody)
    /\ UNCHANGED <<nav, listMounted, editing, confirmDelete, alerts, query,
                   nonAppVars>>

\* TablerosListView.handleDelete: the confirmation dialog opens
handleDelete(tablero) ==
    /\ NoDialog
    /\ ListShown
    /\ confirmDelete' = tablero.id
    /\ UNCHANGED <<nav, listMounted, editing, alerts, mutation, query, inFlight,
                   requestsIssued, nonAppVars>>

\* 'Cancelar' in the confirmation dialog
ConfirmCancelar ==
    /\ confirmDelete # NoId
    /\ confirmDelete' = NoId
    /\ UNCHANGED <<nav, listMounted, editing, alerts, mutation, query, inFlight,
                   requestsIssued, nonAppVars>>

\* 'Eliminar' in the confirmation dialog: deleteTableroMutation.mutate(tablero.id)
ConfirmEliminar ==
    /\ confirmDelete # NoId
    /\ requestsIssued < MaxRequests
    /\ confirmDelete' = NoId
    /\ Mutate("deleteTablero", confirmDelete, NoBody)
    /\ UNCHANGED <<nav, listMounted, editing, alerts, query, nonAppVars>>

\* a retry after every failure up to one more than configured
ShouldRetry_OnceMore(failureCount) == failureCount < Retry + 1

\* retry: 2 read by the query on a failed attempt, failureCount being the
\* number of attempts of this fetch that failed before it
ShouldRetry(failureCount) == failureCount < Retry

\* the queryFn of useTableros settles for a request of the current fetch, or
\* the response of a cancelled fetch is dropped
QuerySettles(req, resp) ==
    /\ req \in inFlight /\ req.op = "getAllTableros"
    /\ LET response == getAllTableros(resp)
           retried == GetRequest(requestsIssued + 1)
       IN  IF req.n # query.fetching
           THEN /\ inFlight' = inFlight \ {req}
                /\ UNCHANGED <<query, requestsIssued>>
           ELSE IF response.success
           THEN /\ query' = [status |-> "success", data |-> response.data.json,
                             isInvalidated |-> FALSE, fetching |-> 0,
                             failureCount |-> 0]
                /\ inFlight' = inFlight \ {req}
                /\ UNCHANGED requestsIssued
           ELSE IF ShouldRetry(query.failureCount)
           THEN /\ query' = [query EXCEPT !.failureCount = @ + 1,
                                          !.fetching = requestsIssued + 1]
                /\ inFlight' = (inFlight \ {req}) \cup {retried}
                /\ requestsIssued' = requestsIssued + 1
           ELSE /\ query' = [query EXCEPT !.status = "error", !.fetching = 0,
                                          !.failureCount = @ + 1]
                /\ inFlight' = inFlight \ {req}
                /\ UNCHANGED requestsIssued
    /\ UNCHANGED <<nav, listMounted, editing, confirmDelete, alerts, mutation,
                   nonAppVars>>

\* whether the mutationFn's promise rejects: it returns the service's result,
\* and the service catches every error, so it never does
MutationFnRejects(result) == FALSE

\* callbacks of mutate() that run whether or not the screen is still mounted
Observed_Always(req) == TRUE

\* the callbacks passed to mutate() run only while the screen that called it
\* is mounted and this is still its latest mutation
Observed(req) == mutation[req.op].current = req.n

\* a mutation whose observer is not told that the mutationFn settled
SettledStatus_StaysPending(rejected) == "pending"

\* the status of the mutation once its mutationFn has settled: isPending ends
SettledStatus(rejected) == IF rejected THEN "error" ELSE "success"

\* the mutationFn of a mutation settles: the hook's callback runs, then the
\* callback passed to mutate() if this is still the observer's mutation
MutationSettles(req, resp) ==
    /\ req \in inFlight /\ req.op \in MutationOps
    /\ LET result == ServiceResult(req.op, resp)
           observed == Observed(req)
           n == requestsIssued + 1
       IN  IF MutationFnRejects(result)
           THEN /\ alerts' = alerts \cup HookErrorAlerts(req.op)
                                \cup (IF observed THEN ErrorAlerts(req.op) ELSE {})
                /\ mutation' = IF observed
                               THEN [mutation EXCEPT
                                        ![req.op].status = SettledStatus(TRUE)]
                               ELSE mutation
                /\ inFlight' = inFlight \ {req}
                /\ UNCHANGED <<query, requestsIssued>>
           ELSE /\ query' = HookOnSuccess(query, n)
                /\ inFlight' = (inFlight \ {req}) \cup InvalidationRequests(query', n)
                /\ requestsIssued' = IF InvalidationRequests(query', n) = {}
                                     THEN requestsIssued ELSE n
                /\ mutation' = IF observed
                               THEN [mutation EXCEPT ![req.op].status = SettledStatus(FALSE),
                                                     ![req.op].data = result]
                               ELSE mutation
                /\ alerts' = IF observed THEN alerts \cup {SuccessMsg(req.op)}
                             ELSE alerts
    /\ UNCHANGED <<nav, listMounted, editing, confirmDelete, nonAppVars>>

\* the alert's OK button; the success alerts of the forms navigate to the list
DismissAlert(msg) ==
    /\ msg \in alerts
    /\ alerts' = alerts \ {msg}
    /\ IF msg = SuccessMsg("createTablero") \/ msg = SuccessMsg("updateTablero")
       THEN /\ nav' = "Dashboard"
            /\ editing' = IF msg = SuccessMsg("updateTablero") THEN NoId ELSE editing
            /\ mutation' = IF msg = SuccessMsg("updateTablero")
                           THEN [mutation EXCEPT !["updateTablero"] = IdleMutation]
                           ELSE mutation
            /\ IF ~listMounted
               THEN /\ listMounted' = TRUE
                    /\ requestsIssued' = requestsIssued + 1
                    /\ query' = FetchStarted([NoQuery EXCEPT !.status = "pending"],
                                             requestsIssued + 1)
                    /\ inFlight' = inFlight \cup {GetRequest(requestsIssued + 1)}
               ELSE UNCHANGED <<listMounted, requestsIssued, query, inFlight>>
       ELSE UNCHANGED <<nav, editing, mutation, listMounted, requestsIssued, query,
                        inFlight>>
    /\ UNCHANGED <<confirmDelete, nonAppVars>>

Tabs == {"Inicio", "Dashboard", "Crear"}

\* what the user has typed when pressing the submit button: a record that
\* satisfies the seven rules, and forms departing from it in one field
ValidForm ==
    [nombre |-> <<"a">>, ubicacion |-> <<"a">>, marca |-> <<"a">>,
     capacidad_amperios |-> <<"1", "0", "0">>,
     ano_fabricacion |-> <<"2", "0", "1", "9">>,
     ano_instalacion |-> <<"2", "0", "1", "9">>, estado |-> Operativo]

Forms ==
    {ValidForm,
     [ValidForm EXCEPT !.nombre = <<" ">>],
     [ValidForm EXCEPT !.nombre = <<" ">>, !.capacidad_amperios = <<"a">>],
     [ValidForm EXCEPT !.capacidad_amperios = <<>>],
     [ValidForm EXCEPT !.capacidad_amperios = <<"a">>],
     [ValidForm EXCEPT !.capacidad_amperios = <<"0">>],
     [ValidForm EXCEPT !.ano_instalacion = <<>>],
     [ValidForm EXCEPT !.ano_fabricacion = <<"2", "0", "2", "1">>]}

AppCollections == {<<Rec(1)>>, <<Rec(1), Rec(2)>>}

QueryResponses ==
    {NetworkFailure} \cup {HttpResponse(200, TRUE, c, "") : c \in AppCollections}

MutationResponses ==
    {NetworkFailure,
     HttpResponse(204, FALSE, <<>>, ""),
     HttpResponse(201, TRUE, <<Rec(1)>>, ""),
     HttpResponse(404, TRUE, <<>>, "Tablero no encontrado")}

InitApp ==
    /\ AppIdle
    /\ ValidatorIdle
    /\ GatewayIdle
    /\ ListIdle
    /\ ThemeIdle
    /\ ControllerIdle
    /\ PagerIdle
    /\ TimerIdle

NextApp ==
    \/ \E tab \in Tabs : NavigateTab(tab)
    \/ Refetch
    \/ \E formData \in Forms : CreateHandleSubmit(formData)
    \/ \E i \in 1..Len(query.data) : handleEdit(query.data[i])
    \/ \E formData \in Forms : EditHandleSubmit(formData)
    \/ EditGoBack
    \/ \E i \in 1..Len(query.data) : handleDelete(query.data[i])
    \/ ConfirmCancelar
    \/ ConfirmEliminar
    \/ \E req \in inFlight, resp \in QueryResponses : QuerySettles(req, resp)
    \/ \E req \in inFlight, resp \in MutationResponses : MutationSettles(req, resp)
    \/ \E msg \in alerts : DismissAlert(msg)

SpecApp == InitApp /\ [][NextApp]_vars

\* fetch settles every request: with a response or with a rejection
ResponseArrives ==
    \E req \in inFlight, resp \in MutationResponses : MutationSettles(req, resp)

SpecAppFair == SpecApp /\ WF_vars(ResponseArrives)

---------------------------------------------------------------------------
(* ThemeProvider: the theme preference and its storage *)

InitTheme ==
    /\ ThemeIdle
    /\ ValidatorIdle
    /\ GatewayIdle
    /\ ListIdle
    /\ AppIdle
    /\ ControllerIdle
    /\ PagerIdle
    /\ TimerIdle

\* loadThemePreference: getItem resolves
LoadResolves ==
    /\ themeLoad = "pending"
    /\ isDarkMode' = IF savedTheme # NullItem THEN IsDarkText(savedTheme)
                     ELSE isDarkMode
    /\ themeLoad' = "loaded"
    /\ UNCHANGED <<storage, savedTheme, pendingWrites, newTheme, lastWrite, toggles,
                   storageFailed, beforeToggle, nonThemeVars>>

\* loadThemePreference: getItem rejects; the catch block logs the error
LoadRejects ==
    /\ themeLoad = "pending"
    /\ themeLoad' = "failed"
    /\ storageFailed' = TRUE
    /\ UNCHANGED <<isDarkMode, storage, savedTheme, pendingWrites, newTheme,
                   lastWrite, toggles, beforeToggle, nonThemeVars>>

\* a toggleTheme that switches to the dark theme whatever the theme is
toggleTheme_AlwaysDark ==
    /\ toggles < MaxToggles
    /\ isDarkMode' = TRUE
    /\ pendingWrites' = Append(pendingWrites,
                               [key |-> STORAGE_KEY, value |-> ThemeText(TRUE)])
    /\ newTheme' = TRUE
    /\ lastWrite' = "pending"
    /\ toggles' = toggles + 1
    /\ beforeToggle' = IF toggles = 0
                       THEN [dark |-> isDarkMode,
                             persisted |-> IsDarkText(GetItem(storage, STORAGE_KEY)),
                             load |-> themeLoad]
                       ELSE beforeToggle
    /\ UNCHANGED <<themeLoad, storage, savedTheme, storageFailed, nonThemeVars>>

\* toggleTheme(): the state is set and the setItem is handed to the storage
toggleTheme ==
    /\ toggles < MaxToggles
    /\ isDarkMode' = ~isDarkMode
    /\ pendingWrites' = Append(pendingWrites,
                               [key |-> STORAGE_KEY, value |-> ThemeText(~isDarkMode)])
    /\ newTheme' = ~isDarkMode
    /\ lastWrite' = "pending"
    /\ toggles' = toggles + 1
    /\ beforeToggle' = IF toggles = 0
                       THEN [dark |-> isDarkMode,
                             persisted |-> IsDarkText(GetItem(storage, STORAGE_KEY)),
                             load |-> themeLoad]
                       ELSE beforeToggle
    /\ UNCHANGED <<themeLoad, storage, savedTheme, storageFailed, nonThemeVars>>

WriteOutcome(outcome) == IF Len(pendingWrites) = 1 THEN outcome ELSE lastWrite

\* the storage performs the oldest setItem
WriteResolves ==
    /\ pendingWrites # <<>>
    /\ storage' = SetItem(storage, Head(pendingWrites).key, Head(pendingWrites).value)
    /\ pendingWrites' = Tail(pendingWrites)
    /\ lastWrite' = WriteOutcome("done")
    /\ UNCHANGED <<isDarkMode, themeLoad, savedTheme, newTheme, toggles, storageFailed,
                   beforeToggle, nonThemeVars>>

\* the oldest setItem rejects; the catch block of toggleTheme logs the error
WriteRejects ==
    /\ pendingWrites # <<>>
    /\ pendingWrites' = Tail(pendingWrites)
    /\ lastWrite' = WriteOutcome("failed")
    /\ storageFailed' = TRUE
    /\ UNCHANGED <<isDarkMode, themeLoad, storage, savedTheme, newTheme, toggles,
                   beforeToggle, nonThemeVars>>

\* the application is closed and started again: a setItem not yet performed
\* is lost, and a fresh ThemeProvider mounts over the storage
Restart ==
    /\ lastWrite' = IF pendingWrites = <<>> THEN lastWrite ELSE "failed"
    /\ storageFailed' = (storageFailed \/ pendingWrites # <<>>)
    /\ isDarkMode' = FALSE
    /\ themeLoad' = "pending"
    /\ savedTheme' = GetItem(storage, STORAGE_KEY)
    /\ pendingWrites' = <<>>
    /\ toggles' = 0
    /\ beforeToggle' = NotToggled
    /\ UNCHANGED <<storage, newTheme, nonThemeVars>>

NextTheme ==
    \/ LoadResolves
    \/ LoadRejects
    \/ toggleTheme
    \/ WriteResolves
    \/ WriteRejects
    \/ Restart

SpecTheme == InitTheme /\ [][NextTheme]_vars

---------------------------------------------------------------------------
(* The result contract of the gateway *)

GatewayReturned == gwCall # NoCall /\ gwResponse # NoResponse

Is2xx(resp) == ~resp.net /\ resp.status \in 200..299

ResultIsFailure(res) ==
    /\ res.success = FALSE
    /\ res.data.kind = "null"
    /\ res.error # <<>>

ResultIsSuccessWith(res, kind, json) ==
    /\ res.success = TRUE
    /\ res.data.kind = kind
    /\ res.data.json = json
    /\ res.error = <<>>

\* C10 as stated: for each gateway operation every 2xx response yields
\* {success: true, data: <parsed body>, error: null}, every non-2xx response or
\* network failure yields {success: false, data: null, error: <message>};
\* success iff error is null, and success false implies data null.
C10_Every2xxIsSuccess ==
    GatewayReturned =>
        /\ Is2xx(gwResponse) => ResultIsSuccessWith(gwResult, "json", gwResponse.json)
        /\ ~Is2xx(gwResponse) => ResultIsFailure(gwResult)
        /\ gwResult.success <=> (gwResult.error = <<>>)
        /\ ~gwResult.success => gwResult.data.kind = "null"

\* C10 amended: a 2xx response whose body parses as JSON yields
\* {success: true, data: <parsed body>, error: null}; a 2xx response whose body
\* does not parse yields a failure result for getAllTableros, createTablero and
\* updateTablero and {success: true, data: <confirmation message>, error: null}
\* for deleteTablero; a non-2xx response or a network failure yields
\* {success: false, data: null, error: <message>}; in every result success
\* iff error is null, and success false implies data null.
C10_GatewayResult ==
    GatewayReturned =>
        /\ (Is2xx(gwResponse) /\ gwResponse.parses)
              => ResultIsSuccessWith(gwResult, "json", gwResponse.json)
        /\ (Is2xx(gwResponse) /\ ~gwResponse.parses /\ gwCall # "deleteTablero")
              => ResultIsFailure(gwResult)
        /\ (Is2xx(gwResponse) /\ ~gwResponse.parses /\ gwCall = "deleteTablero")
              => ResultIsSuccessWith(gwResult, "message", <<"Eliminado exitosamente">>)
        /\ ~Is2xx(gwResponse) => ResultIsFailure(gwResult)
        /\ gwResult.success <=> (gwResult.error = <<>>)
        /\ ~gwResult.success => gwResult.data.kind = "null"

\* createTablero has returned the parsed body of a 201 response
C10_Witness ==
    /\ gwCall = "createTablero"
    /\ gwResponse.status = 201 /\ gwResponse.parses /\ gwResponse.json # <<>>
    /\ gwResult.success = TRUE
    /\ gwResult.data.json = gwResponse.json

---------------------------------------------------------------------------
(* The list composer: filter and pagination *)

Min(a, b) == IF a < b THEN a ELSE b

\* term is, ignoring case, a substring of text at some position
ContainsIgnoringCase(text, term) ==
    \E i \in 0..(Len(text) - Len(term)) :
        \A k \in 1..Len(term) : LowerChar(text[i + k]) = LowerChar(term[k])

SearchHit(r, term) ==
    \/ ContainsIgnoringCase(r.nombre, term)
    \/ ContainsIgnoringCase(r.ubicacion, term)
    \/ ContainsIgnoringCase(r.marca, term)
    \/ ContainsIgnoringCase(r.estado, term)

YearHit(r) == selectedYear = <<>> \/ selectedYear = IntToString(r.ano_fabricacion)

\* seq holds exactly the records of data at the positions of keep, in data's order
IsSelection(seq, keep) ==
    /\ Len(seq) = Cardinality(keep)
    /\ \A i \in keep : seq[Cardinality({j \in keep : j <= i})] = data[i]

\* C4 as stated: a record passes the list filter iff the search term is,
\* case-insensitively, a substring of its nombre, ubicacion, marca or estado and
\* the year filter is unset or equals its ano_fabricacion; the filtered set
\* keeps server order and the visible set holds no record failing a filter.
C4_FilterUntrimmedTerm ==
    /\ IsSelection(filteredTableros,
                   {i \in 1..Len(data) : SearchHit(data[i], searchTerm) /\ YearHit(data[i])})
    /\ \A k \in 1..Len(displayedTableros) :
          SearchHit(displayedTableros[k], searchTerm) /\ YearHit(displayedTableros[k])

\* C4 amended: a record passes the list filter iff the search term with its
\* leading and trailing whitespace removed is, case-insensitively, an
\* unanchored substring of its nombre, ubicacion, marca or estado, and the
\* year filter is unset or equals its ano_fabricacion; the filtered set keeps
\* server order, and no record failing one of the filters is in the visible set.
C4_FilterConjunction ==
    /\ IsSelection(filteredTableros,
                   {i \in 1..Len(data) :
                       SearchHit(data[i], Trim(searchTerm)) /\ YearHit(data[i])})
    /\ \A k \in 1..Len(displayedTableros) :
          /\ SearchHit(displayedTableros[k], Trim(searchTerm))
          /\ YearHit(displayedTableros[k])

\* both filters active: records are shown, one record matches the term alone
\* and another the year alone
C4_Witness ==
    /\ Trim(searchTerm) # <<>> /\ selectedYear # <<>>
    /\ Len(displayedTableros) > 0
    /\ \E i \in 1..Len(data) : SearchHit(data[i], Trim(searchTerm)) /\ ~YearHit(data[i])
    /\ \E i \in 1..Len(data) : ~SearchHit(data[i], Trim(searchTerm)) /\ YearHit(data[i])

\* C5: in every state the visible set is the first min(page * 10, |filtered|)
\* records of the filtered set, in its order.
C5_VisibleIsPrefix ==
    displayedTableros = SubSeq(filteredTableros, 1, Min(page * 10, Len(filteredTableros)))

\* the second page of a filtered set of more than 20 records is shown
C5_Witness ==
    /\ page = 2
    /\ Len(filteredTableros) > 20
    /\ Len(displayedTableros) = 20

\* C6: loadMoreTableros advances page by exactly one when the visible set is
\* shorter than the filtered set and changes nothing once the visible set
\* covers it; with no filters the visible set is the first 10, 20, ... records
\* of the collection and the page never passes the last one.
C6_LoadMore ==
    /\ [][loadMoreTableros =>
            IF Len(displayedTableros) < Len(filteredTableros)
            THEN page' = page + 1 /\ filteredTableros' = filteredTableros
            ELSE page' = page /\ displayedTableros' = displayedTableros]_vars
    /\ []((searchTerm = <<>> /\ selectedYear = <<>> /\ ~effectPending /\ ~isLoading)
            => /\ displayedTableros = SubSeq(data, 1, Min(page * 10, Len(data)))
               /\ (page - 1) * 10 < Len(data) \/ page = 1)

\* 25 records, no filters, third page: all 25 are visible
C6_Witness ==
    /\ Len(data) = 25
    /\ searchTerm = <<>> /\ selectedYear = <<>>
    /\ page = 3
    /\ Len(displayedTableros) = 25

ComposerInputsChange ==
    data' # data \/ isLoading' # isLoading \/ searchTerm' # searchTerm
        \/ selectedYear' # selectedYear

\* C7: a change to the fetched collection, the search term or the year filter
\* schedules the page-reset effect, and the effect sets page to 1 whatever it
\* was, leaving at most the first 10 records of the new filtered set visible.
C7_PageReset ==
    /\ [][ComposerInputsChange => effectPending']_vars
    /\ [][effectPending =>
            /\ page' = 1
            /\ ~effectPending'
            /\ filteredTableros' = filteredTableros
            /\ displayedTableros'
                 = SubSeq(filteredTableros, 1, Min(10, Len(filteredTableros)))]_vars

\* the year filter changed while the third page was shown
C7_Witness ==
    /\ effectPending
    /\ page = 3
    /\ selectedYear # <<>>

IsPrefix(a, b) == Len(a) <= Len(b) /\ SubSeq(b, 1, Len(a)) = a

\* C8: while the filtered set stays the same and the page does not go back,
\* the earlier visible set is a prefix of the later one.
C8_MonotonicPrefix ==
    [][(filteredTableros' = filteredTableros /\ page' >= page)
          => IsPrefix(displayedTableros, displayedTableros')]_vars

\* a search left 11 of the records, and load-more has shown the eleventh
C8_Witness ==
    /\ Trim(searchTerm) # <<>>
    /\ page = 2
    /\ Len(filteredTableros) > 10
    /\ Len(displayedTableros) = Len(filteredTableros)

---------------------------------------------------------------------------
(* Inputs of the validator *)

Texts == {<<>>, <<" ">>, <<"a">>, <<" ", "a", " ">>}
Capacidades == {Undef, Num(0), Num(-5), Num(100)}
Anos == {Undef, Num(0), Num(1899), Num(1900), Num(2019), Num(2021)}

Candidates ==
    [id : {NoId}, nombre : Texts, ubicacion : {<<>>, <<"a">>}, marca : {<<>>, <<"a">>},
     capacidad_amperios : Capacidades, ano_fabricacion : Anos,
     ano_instalacion : Anos, estado : {Operativo}]

InitValidate ==
    /\ candidate \in Candidates
    /\ validation = NoValidation
    /\ GatewayIdle
    /\ ListIdle
    /\ AppIdle
    /\ ThemeIdle
    /\ ControllerIdle
    /\ PagerIdle
    /\ TimerIdle

\* validateTableroData(candidate)
Validate ==
    /\ validation = NoValidation
    /\ validation' = validateTableroData(candidate)
    /\ UNCHANGED <<candidate, nonValidatorVars>>

NextValidate == Validate

SpecValidate == InitValidate /\ [][NextValidate]_vars

---------------------------------------------------------------------------
(* The seven rules of the record validator, read on the candidate record *)

RuleViolated(r, k) ==
    CASE k = 1 -> Trim(r.nombre) = <<>>
      [] k = 2 -> Trim(r.ubicacion) = <<>>
      [] k = 3 -> Trim(r.marca) = <<>>
      [] k = 4 -> ~JsLt(Num(0), r.capacidad_amperios)
      [] k = 5 -> ~JsLe(Num(1900), r.ano_fabricacion)
      [] k = 6 -> ~JsLe(Num(1900), r.ano_instalacion)
      [] k = 7 -> JsLt(r.ano_instalacion, r.ano_fabricacion)

RuleMsg(k) ==
    CASE k = 1 -> MsgNombre
      [] k = 2 -> MsgUbicacion
      [] k = 3 -> MsgMarca
      [] k = 4 -> MsgCapacidad
      [] k = 5 -> MsgFabricacion
      [] k = 6 -> MsgInstalacion
      [] k = 7 -> MsgOrden

Rules == 1..7

Count(errors, msg) == Cardinality({i \in 1..Len(errors) : errors[i] = msg})

\* C1: validate(r).isValid is false iff at least one of the seven rules is
\* violated by r, and errors holds exactly one message per violated rule and
\* none for a satisfied rule.
C1_ValidateIffRules ==
    validation # NoValidation =>
        /\ (~validation.isValid) <=> (\E k \in Rules : RuleViolated(candidate, k))
        /\ \A k \in Rules :
              Count(validation.errors, RuleMsg(k))
                  = (IF RuleViolated(candidate, k) THEN 1 ELSE 0)

---------------------------------------------------------------------------
(* Submissions, their outcome on screen, and the cache after a mutation *)

WriteRequests == {req \in inFlight : req.op \in {"createTablero", "updateTablero"}}

\* C2: no create or update flow issues the POST or PATCH call for a record
\* that violates one of the seven validator rules; in particular a create
\* submission with capacidad_amperios = 0 issues no HTTP call.
C2_NoInvalidRecordSent ==
    \A req \in WriteRequests : \A k \in Rules : ~RuleViolated(req.body, k)

\* C3: the success confirmation of the create, update or delete screen is on
\* screen only when the gateway result of the submitted operation is a
\* success; for a failure result the screen shows an error and stays.
C3_SuccessPathOnlyOnSuccess ==
    \A op \in MutationOps :
        SuccessMsg(op) \in alerts => mutation[op].data.success

\* C9: when a create, update or delete mutation completes with a success
\* result, the cached collection is left as fetched (no merge of the mutated
\* record) and is marked invalidated, and a GET /tableros/ issued after the
\* mutation is in flight for the list; a cache that was never filled stays
\* empty, so that the first read of the list fetches.
C9_InvalidatedAfterMutation ==
    [][\A req \in inFlight, resp \in MutationResponses :
          (MutationSettles(req, resp) /\ ServiceResult(req.op, resp).success)
          => /\ query'.data = query.data
             /\ IF query.status = "none"
                THEN query' = query /\ ~listMounted
                ELSE /\ query'.isInvalidated
                     /\ query'.fetching > req.n
                     /\ query'.fetching > query.fetching
                     /\ GetRequest(query'.fetching) \in inFlight']_vars

\* a successful create has settled over a fetched list: the snapshot is still
\* in the cache, marked invalidated, and the fresh GET is in flight
C9_Witness ==
    /\ mutation["createTablero"].status = "success"
    /\ mutation["createTablero"].data.success
    /\ query.status = "success"
    /\ query.data # <<>>
    /\ query.isInvalidated
    /\ query.fetching > mutation["createTablero"].current
    /\ GetRequest(query.fetching) \in inFlight

\* C11: an update submission whose installation year precedes its manufacture
\* year (ano_instalacion = 2019, ano_fabricacion = 2021) fails with the
\* ordering-rule message, so no PATCH for such a record ever leaves; a
\* submission violating several rules is answered with all their messages.
C11_OrderingViolationFails ==
    \A req \in inFlight :
        req.op = "updateTablero"
            => ~JsLt(req.body.ano_instalacion, req.body.ano_fabricacion)

Reported(msg) == \E i \in 1..Len(validation.errors) : validation.errors[i] = msg

\* C12: a candidate record in which capacidad_amperios, ano_fabricacion or
\* ano_instalacion is absent is reported invalid by the validator, and errors
\* holds the message of the capacity, manufacture-year or installation-year
\* rule respectively.
C12_AbsentFieldReported ==
    validation # NoValidation =>
        /\ candidate.capacidad_amperios = Undef
              => ~validation.isValid /\ Reported(MsgCapacidad)
        /\ candidate.ano_fabricacion = Undef
              => ~validation.isValid /\ Reported(MsgFabricacion)
        /\ candidate.ano_instalacion = Undef
              => ~validation.isValid /\ Reported(MsgInstalacion)

---------------------------------------------------------------------------
(* The gateway's HTTP requests and failure results *)

---------------------------------------------------------------------------
(* Retries of the data-fetching layer *)

HandledFailure(unparsableFails) ==
    \/ BuildThrows(gwCall, gwArg)
    \/ gwResponse # NoResponse
          /\ \/ gwResponse.net
             \/ ~ResponseOk(gwResponse)
             \/ ~gwResponse.parses /\ gwCall \in unparsableFails

\* C15 as stated: no operation throws, and a network failure, a non-2xx
\* response, an unparsable body or an exception while building the request
\* gives the failure result {success: false, data: null, error: <message>},
\* for every operation.
C15_UnparsableAlwaysFails ==
    /\ gwPc # "threw"
    /\ (gwPc = "returned" /\ HandledFailure(GatewayOps)) => ResultIsFailure(gwResult)

\* C15 amended: no operation throws to its caller; a network failure, a
\* non-2xx response, an exception while building the request, and for
\* getAllTableros, createTablero and updateTablero an unparsable body, each
\* give the failure result {success: false, data: null, error: <message>}.
C15_NeverThrows ==
    /\ gwPc # "threw"
    /\ (gwPc = "returned" /\ HandledFailure(GatewayOps \ {"deleteTablero"}))
          => ResultIsFailure(gwResult)

\* createTablero was handed a tableroData that JSON.stringify throws on and
\* has returned the failure result
C15_Witness ==
    /\ gwPc = "returned"
    /\ gwCall = "createTablero"
    /\ BuildThrows(gwCall, gwArg)
    /\ gwResult = ServiceFailure(MsgBuild)
    /\ gwRequests = 0

GenericMessage(op, status) ==
    CASE op = "createTablero" -> <<"Error al crear tablero: ", StatusText(status)>>
      [] op = "updateTablero" -> <<"Error al actualizar tablero: ", StatusText(status)>>
      [] op = "deleteTablero" -> <<"Error al eliminar tablero: ", StatusText(status)>>

\* C16: for createTablero, updateTablero and deleteTablero the error message
\* of the failure result of a non-2xx response is the detail field of the
\* response body when the body carries one, and otherwise the generic
\* message holding the HTTP status code.
C16_DetailElseStatusMessage ==
    (gwPc = "returned" /\ gwCall \in MutationOps /\ gwResponse # NoResponse
        /\ ~gwResponse.net /\ ~ResponseOk(gwResponse))
    => gwResult.error =
          (IF gwResponse.parses /\ gwResponse.detailKind # "none"
           THEN <<gwResponse.detail>>
           ELSE GenericMessage(gwCall, gwResponse.status))

\* C17: deleteTablero returns a success result for every 2xx response; for
\* an empty or non-JSON body data is the implicit confirmation message, for
\* a JSON body it is the parsed body.
C17_DeleteToleratesEmptyBody ==
    (gwPc = "returned" /\ gwCall = "deleteTablero" /\ Is2xx(gwResponse))
    => /\ gwResult.success
       /\ gwResult.error = ErrorNull
       /\ gwResult.data = (IF gwResponse.parses THEN DataJson(gwResponse.json)
                                               ELSE DataMessage)

\* a delete answered 204 without a body has returned the confirmation message
C17_Witness ==
    /\ gwPc = "returned"
    /\ gwCall = "deleteTablero"
    /\ gwResponse.status = 204 /\ ~gwResponse.parses
    /\ gwResult = ServiceSuccess(DataMessage)

---------------------------------------------------------------------------
(* The submitting state of the screens *)

Submitting(op) == mutation[op].status = "pending"

\* C18: whenever the gateway answers the create or update request a screen
\* is waiting for, with success or with failure, the screen leaves the
\* submitting state in that step, so that its submit control is enabled
\* again; a screen that is submitting eventually is not.  (The list screen has
\* no submitting state for a delete.)
C18_SubmittingEnds ==
    /\ [][\A req \in inFlight, resp \in MutationResponses :
            (MutationSettles(req, resp) /\ mutation[req.op].current = req.n)
                => ~Submitting(req.op)']_vars
    /\ Submitting("createTablero") ~> ~Submitting("createTablero")
    /\ Submitting("updateTablero") ~> ~Submitting("updateTablero")

\* the create screen has left the submitting state after a failed POST
C18_Witness ==
    /\ mutation["createTablero"].current # 0
    /\ ~Submitting("createTablero")
    /\ ~mutation["createTablero"].data.success
    /\ mutation["createTablero"].data # NoResult
    /\ \A req \in inFlight : req.op # "createTablero"

\* C19: leaving the edit screen aborts no request in flight; when the
\* response of a request whose screen has unmounted arrives, the request
\* completes and nothing of that screen is applied: no alert is shown, the
\* navigation does not move and no screen's mutation state changes.
C19_UnmountedCallbacksDiscarded ==
    /\ [][EditGoBack => inFlight' = inFlight]_vars
    /\ [][\A req \in inFlight, resp \in MutationResponses :
            (MutationSettles(req, resp) /\ mutation[req.op].current # req.n)
                => /\ req \notin inFlight'
                   /\ alerts' = alerts
                   /\ nav' = nav /\ editing' = editing
                   /\ mutation' = mutation]_vars

\* the PATCH of an edit screen that was left has been answered: the list is
\* invalidated by it, no alert is shown and no mutation state remains
C19_Witness ==
    /\ \A op \in MutationOps : mutation[op].current = 0
    /\ editing = NoId
    /\ query.isInvalidated
    /\ alerts = {}
    /\ \A req \in inFlight : req.op = "getAllTableros"

---------------------------------------------------------------------------
(* The persisted theme preference *)

\* nothing is stored but the preference, under its key, as 'dark' or 'light'
OnlyThemeStored ==
    \A item \in storage : item.key = STORAGE_KEY /\ item.value \in {"dark", "light"}

\* a fresh ThemeProvider has finished loading and no toggle was made since
FreshStartDone(outcomes) == themeLoad \in outcomes /\ toggles = 0

\* C20 as stated: the preference is the only stored item, under
\* '@theme_preference' as 'dark' or 'light'; after toggles whose writes
\* succeeded every fresh start ends with isDarkMode equal to the value of the
\* last toggle, and with nothing stored the theme is light.
C20_EveryStartRestoresTheme ==
    /\ OnlyThemeStored
    /\ (FreshStartDone({"loaded", "failed"}) /\ lastWrite = "done")
          => isDarkMode = newTheme
    /\ (FreshStartDone({"loaded", "failed"}) /\ storage = {}) => ~isDarkMode

\* C20 amended: the same for a fresh start whose read of the stored
\* preference succeeds; a start whose read fails shows the light theme.
C20_ThemeRoundTrip ==
    /\ OnlyThemeStored
    /\ (FreshStartDone({"loaded"}) /\ lastWrite = "done")
          => isDarkMode = newTheme
    /\ (FreshStartDone({"loaded", "failed"}) /\ storage = {}) => ~isDarkMode
    /\ FreshStartDone({"failed"}) => ~isDarkMode

\* after a toggle to dark whose write succeeded, a fresh start has loaded dark
C20_Witness ==
    /\ FreshStartDone({"loaded"})
    /\ lastWrite = "done"
    /\ newTheme
    /\ storage = {[key |-> STORAGE_KEY, value |-> "dark"]}
    /\ isDarkMode

---------------------------------------------------------------------------
(* The id of a record in the requests *)

\* the requests that have left since the previous state
Issued == inFlight' \ inFlight

\* the body the controller revision of the create form hands to the gateway
ControllerBody(formData) == toJSON(TableroElectricoModel(DataToSend(formData)))

\* C21: the body of every POST is the record of the form, all seven fields,
\* without an id, and its URL names no record (the same body results when
\* the controller serialises it); every PATCH goes to the URL of the tablero
\* that is being edited when it is issued.
C21_IdAbsentOnCreate ==
    /\ [](\A req \in inFlight : req.op = "createTablero" =>
            /\ req.body.id = NoId
            /\ req.target = NoId
            /\ \E formData \in Forms :
                  /\ req.body = DataToSend(formData)
                  /\ ControllerBody(formData).id = NoId)
    /\ [][\A req \in Issued : req.op = "updateTablero" =>
            req.target = editing /\ editing # NoId]_vars

\* a POST with the record of the valid form is in flight
C21_Witness ==
    \E req \in inFlight :
        /\ req.op = "createTablero"
        /\ req.body = DataToSend(ValidForm)
        /\ req.body.id = NoId

---------------------------------------------------------------------------
(* The list composer as a function of its inputs *)

ComposerInputsKept ==
    /\ data' = data /\ searchTerm' = searchTerm
    /\ selectedYear' = selectedYear /\ page' = page

\* C22: in every state the filtered and the visible set are what the composer
\* computes from the current collection, search term, year filter and page
\* alone, and a step that leaves these four unchanged leaves the content of
\* both sets unchanged.
C22_ComposerIdempotent ==
    /\ [](/\ filteredTableros = FilteredTableros(data, searchTerm, selectedYear)
          /\ displayedTableros = DisplayedTableros(
                                    FilteredTableros(data, searchTerm, selectedYear), page))
    /\ [][ComposerInputsKept =>
            /\ filteredTableros' = filteredTableros
            /\ displayedTableros' = displayedTableros]_vars

\* the screen was rendered again after the term and the year were set and the
\* second page was loaded: the visible set is shorter than the collection
C22_Witness ==
    /\ ~isLoading /\ ~effectPending
    /\ Trim(searchTerm) # <<>>
    /\ page = 2
    /\ Len(displayedTableros) > 10
    /\ Len(displayedTableros) < Len(data)

---------------------------------------------------------------------------
(* The confirmation of a delete *)

\* C23: a DELETE request leaves only in the step that answers 'Eliminar' in
\* the confirmation dialog, and it names the tablero the dialog was opened
\* for; opening the dialog sends nothing, and answering 'Cancelar' sends
\* nothing and leaves the collection and the visible set as they were.
C23_DeleteOnlyAfterConfirm ==
    /\ [][\A req \in Issued : req.op = "deleteTablero" =>
            /\ confirmDelete # NoId
            /\ req.target = confirmDelete
            /\ confirmDelete' = NoId]_vars
    /\ [][(confirmDelete = NoId /\ confirmDelete' # NoId) => Issued = {}]_vars
    /\ [][ConfirmCancelar =>
            /\ Issued = {} /\ inFlight' = inFlight
            /\ query' = query
            /\ filteredTableros' = filteredTableros
            /\ displayedTableros' = displayedTableros]_vars

\* 'Eliminar' was answered for the second record: its DELETE is in flight
C23_Witness ==
    /\ confirmDelete = NoId
    /\ \E req \in inFlight : req.op = "deleteTablero" /\ req.target = 2
    /\ Len(query.data) = 2

---------------------------------------------------------------------------
(* The controller's delete *)

GatewayUntouched ==
    gwCall = NoCall /\ gwPc = "idle" /\ gwRequests = 0 /\ gwResult = NoResult

---------------------------------------------------------------------------
(* The page counter *)

\* ceil(n / 10), and 1 for an empty set
LastPage(n) == IF n = 0 THEN 1 ELSE (n + ITEMS_PER_PAGE - 1) \div ITEMS_PER_PAGE

\* C25: once the screen has rendered and its page-reset effect has run, the
\* page counter is at least 1 and at most max(1, ceil(|filtered set| / 10)),
\* also when the end of the list was reached more than once before a render.
C25_PageWithinBounds ==
    /\ page >= 1
    /\ (~effectPending /\ queuedUpdates = 0)
          => page <= LastPage(Len(filteredTableros))

\* what is persisted under the key, read as a theme: light when nothing is stored
PersistedDark == IsDarkText(GetItem(storage, STORAGE_KEY))

\* neither the getItem of the start nor a setItem is waiting, and no storage
\* operation has failed
StorageQuiet ==
    /\ themeLoad = "loaded"
    /\ pendingWrites = <<>>
    /\ ~storageFailed

\* C26: whenever no storage operation is pending and none has failed,
\* isDarkMode is the theme persisted under '@theme_preference', light when
\* nothing is stored, also when toggleTheme ran while loadThemePreference
\* was waiting for its getItem.
C26_MemoryMatchesStorage == StorageQuiet => (isDarkMode = PersistedDark)

---------------------------------------------------------------------------
(* One request per submission *)

FormOps == {"createTablero", "updateTablero"}

\* the submit button of the form of op is on screen and not disabled
SubmitEnabled(op) ==
    /\ ~Submitting(op)
    /\ op = "updateTablero" => editing # NoId

\* the request is the one the mounted form of its operation is waiting for
OfMountedForm(req) == req.n = mutation[req.op].current

\* C27 as stated: while a create or update request issued from a form is in
\* flight the submit control of that form is disabled, and at most one request
\* of each form is in flight.
C27_SubmitDisabledWhileInFlight ==
    \A op \in FormOps :
        /\ (\E req \in inFlight : req.op = op) => ~SubmitEnabled(op)
        /\ Cardinality({req \in inFlight : req.op = op}) <= 1

\* C27 amended: while the request issued by the mounted instance of a form is
\* in flight, that instance's submit control is disabled; a POST or PATCH
\* leaves only from a form that is not submitting, one per submission, and
\* the arrival of a response sends no POST or PATCH.  (An edit screen left
\* while its PATCH is in flight does not cancel it; the edit screen opened
\* next is a new instance whose control is enabled.)
C27_OneRequestPerSubmission ==
    /\ [](\A req \in WriteRequests : OfMountedForm(req) => Submitting(req.op))
    /\ [](\A op \in FormOps :
            Cardinality({req \in inFlight : req.op = op /\ OfMountedForm(req)}) <= 1)
    /\ [][\A req \in Issued : req.op \in FormOps =>
            /\ ~Submitting(req.op)
            /\ Submitting(req.op)'
            /\ OfMountedForm(req)'
            /\ Cardinality({r \in Issued : r.op \in FormOps}) = 1]_vars

\* the edit screen was left while its PATCH was in flight and opened again:
\* the new screen's submit button is enabled
C27_Witness ==
    /\ editing # NoId
    /\ SubmitEnabled("updateTablero")
    /\ \E req \in inFlight : req.op = "updateTablero" /\ ~OfMountedForm(req)

---------------------------------------------------------------------------
(* The visible records of the timer revision *)

DuplicateFree(seq) == \A i, j \in 1..Len(seq) : seq[i] = seq[j] => i = j

\* C28: in the revision whose load-more runs after a 500 ms timer,
\* displayedTableros is in every state a duplicate-free prefix of the current
\* tableros of length min(page * 10, |tableros|), also when a reload of the
\* collection completes while a load-more timer is pending.
C28_DisplayedIsPrefix ==
    /\ DuplicateFree(displayedTableros)
    /\ displayedTableros
         = SubSeq(loadedTableros, 1, Min(page * ITEMS_PER_PAGE, Len(loadedTableros)))

---------------------------------------------------------------------------
(* The year filter and the years on offer *)

\* C29: in every state the selected year is unset or one of the manufacture
\* years of the current collection, that is a member of availableYears, also
\* after a refetch has changed the collection.
C29_SelectedYearAvailable ==
    \/ selectedYear = <<>>
    \/ \E i \in 1..Len(availableYears) : availableYears[i] = selectedYear

---------------------------------------------------------------------------
(* Two toggles *)

\* toggleTheme has been called twice since the provider mounted, both writes
\* have been performed, no storage operation failed, and the load of the
\* stored preference did not settle in between
TwoTogglesDone ==
    /\ toggles = 2
    /\ pendingWrites = <<>>
    /\ ~storageFailed
    /\ themeLoad = beforeToggle.load

\* isDarkMode and the persisted theme are what they were before the first call
ThemeRestored ==
    /\ isDarkMode = beforeToggle.dark
    /\ PersistedDark = beforeToggle.persisted

=============================================================================
